---------------------------- MODULE Spec2Model ----------------------------
(***************************************************************************)
(* Model of the repository (storage) layer of the jewelry shop:            *)
(* DatabaseStorage over the tables users, products, bills, estimates,      *)
(* categories, home_sections and home_section_items.  A table is the set   *)
(* of its rows; a row is a record holding the columns the modelled         *)
(* operations read or write.  Every handler is one action; it leaves its   *)
(* outcome in `ret`.  Where calls overlap, a handler is one action per     *)
(* statement it awaits, its position kept in `calls`.                      *)
(***************************************************************************)
EXTENDS Integers, Sequences, FiniteSets, TLC

VARIABLES
    users,       \* rows of table users
    products,    \* rows of table products
    categories,  \* rows of table categories
    catSeq,      \* number of category rows ever inserted (ids are never reused)
    bills,       \* rows of table bills
    estimates,   \* rows of table estimates
    homeSections,      \* rows of table home_sections
    sectionSeq,        \* number of home_sections rows ever inserted
    homeSectionItems,  \* rows of table home_section_items
    itemSeq,           \* number of home_section_items rows ever inserted
    calls,       \* the overlapping calls in flight: position and locals of each
    now,         \* the clock: the calendar month new Date() / now() fall in
    ret          \* the last call: operation, arguments, outcome

vars == <<users, products, categories, catSeq, bills, estimates, homeSections,
          sectionSeq, homeSectionItems, itemSeq, calls, now, ret>>

-----------------------------------------------------------------------------
(* Bounds of the model.                                                    *)
MaxProducts == 2
MaxCategories == 2
MaxEstimates == 3
MaxBills == 1
MaxUsers == 2
MaxMonths == 2
MaxSections == 2
MaxCallers == 2
MaxRows == 2
MaxItems == 2

-----------------------------------------------------------------------------
(* Values.                                                                 *)
NULL == "<null>"            \* SQL NULL in a text column
UNDEFINED == [undefined |-> TRUE]   \* JS undefined: the absent marker of the reads
JSNULL == [null |-> TRUE]      \* JS null as a returned value

\* Outcome of a call: a returned value or a raised error.
Returned(op, args, val) == [op |-> op, args |-> args, kind |-> "return", val |-> val]
Raised(op, args, err) == [op |-> op, args |-> args, kind |-> "error", val |-> err]

\* `{...row, ...patch}` / `.set(patch)`: the keys of patch replace those of row.
Spread(row, patch) ==
    [f \in DOMAIN row \cup DOMAIN patch |->
        IF f \in DOMAIN patch THEN patch[f] ELSE row[f]]

\* ORDER BY created_at DESC: the rows as a sequence, the newest first
newestFirst(rows) ==
    CHOOSE s \in [1..Cardinality(rows) -> rows] :
        \A i, j \in 1..Cardinality(rows) : i < j => s[i].createdAt > s[j].createdAt

Range(seq) == {seq[i] : i \in DOMAIN seq}

\* `const [row] = ...`: the first row of a result, undefined if there is none.
FirstOf(rows) == IF rows = {} THEN UNDEFINED ELSE CHOOSE r \in rows : TRUE

-----------------------------------------------------------------------------
(* Products.  Columns: id, category, isActive, createdAt (the ordinal of    *)
(* the insert: later inserts carry later timestamps).                      *)

ProductId(n) == "p" \o ToString(n)

\* getAllProducts: WHERE is_active = true ORDER BY created_at DESC
getAllProducts_NoFilter(P) ==
    newestFirst(P)
getAllProducts(P) ==
    newestFirst({p \in P : p.isActive = TRUE})

\* getProduct: WHERE id = $1 AND is_active = true; first row or undefined
getProduct(P, id) ==
    FirstOf({p \in P : p.id = id /\ p.isActive = TRUE})

\* getProductsByCategory: WHERE category = $1 AND is_active = true
getProductsByCategory(P, category) ==
    newestFirst({p \in P : p.category = category /\ p.isActive = TRUE})

\* createProduct: the inserted row; isActive: product.isActive ?? true
createProductRow(P, product) ==
    Spread([id |-> ProductId(Cardinality(P) + 1), createdAt |-> Cardinality(P) + 1],
           Spread(product, [isActive |-> IF "isActive" \in DOMAIN product
                                         THEN product.isActive ELSE TRUE]))

\* UPDATE products SET <patch> WHERE id = $1
updateProductRows(P, id, patch) ==
    {IF p.id = id THEN Spread(p, patch) ELSE p : p \in P}

\* UPDATE products SET is_active = false WHERE id = $1
deleteProductRows_Removes(P, id) == {p \in P : p.id # id}
deleteProductRows_NoOp(P, id) == P
deleteProductRows(P, id) ==
    {IF p.id = id THEN [p EXCEPT !.isActive = FALSE] ELSE p : p \in P}

\* RETURNING: the rows the statement matched, as they are afterwards
returning(rowsAfter, id) == FirstOf({r \in rowsAfter : r.id = id})

CreateProduct(product) ==
    /\ Cardinality(products) < MaxProducts
    /\ LET row == createProductRow(products, product)
       IN  /\ products' = products \cup {row}
           /\ ret' = Returned("createProduct", <<product>>, row)
    /\ UNCHANGED <<users, categories, catSeq, bills, estimates,
                   homeSections, sectionSeq, homeSectionItems, itemSeq, calls, now>>

UpdateProduct(id, patch) ==
    /\ products' = updateProductRows(products, id, patch)
    /\ ret' = Returned("updateProduct", <<id, patch>>, returning(products', id))
    /\ UNCHANGED <<users, categories, catSeq, bills, estimates,
                   homeSections, sectionSeq, homeSectionItems, itemSeq, calls, now>>

DeleteProduct(id) ==
    /\ products' = deleteProductRows(products, id)
    /\ ret' = Returned("deleteProduct", <<id>>, returning(products', id) # UNDEFINED)
    /\ UNCHANGED <<users, categories, catSeq, bills, estimates,
                   homeSections, sectionSeq, homeSectionItems, itemSeq, calls, now>>

GetAllProducts ==
    /\ ret' = Returned("getAllProducts", <<>>, getAllProducts(products))
    /\ UNCHANGED <<users, products, categories, catSeq, bills, estimates,
                   homeSections, sectionSeq, homeSectionItems, itemSeq, calls, now>>

GetProduct(id) ==
    /\ ret' = Returned("getProduct", <<id>>, getProduct(products, id))
    /\ UNCHANGED <<users, products, categories, catSeq, bills, estimates,
                   homeSections, sectionSeq, homeSectionItems, itemSeq, calls, now>>

GetProductsByCategory(category) ==
    /\ ret' = Returned("getProductsByCategory", <<category>>,
                       getProductsByCategory(products, category))
    /\ UNCHANGED <<users, products, categories, catSeq, bills, estimates,
                   homeSections, sectionSeq, homeSectionItems, itemSeq, calls, now>>

-----------------------------------------------------------------------------
(* Categories.  Columns: id, slug (unique), parentId, displayOrder,         *)
(* createdAt (the ordinal of the insert).  ORDER BY display_order, name:   *)
(* name is not a column of the model, rows of equal displayOrder are taken *)
(* in the order of their insertion.                                        *)

CategoryId(n) == "c" \o ToString(n)

\* JS truthiness of a nullable text value
Truthy(v) == v \notin {NULL, ""}

CategoryBefore(a, b) ==
    \/ a.displayOrder < b.displayOrder
    \/ a.displayOrder = b.displayOrder /\ a.createdAt < b.createdAt

\* ORDER BY display_order, name: the rows as a sequence
inDisplayOrder(rows) ==
    CHOOSE s \in [1..Cardinality(rows) -> rows] :
        \A i, j \in 1..Cardinality(rows) : i < j => CategoryBefore(s[i], s[j])

getAllCategories(C) == inDisplayOrder(C)

\* getCategoriesHierarchy: the parentless categories, each with the
\* categories whose parentId is its id
getCategoriesHierarchy_AllChildren(C) ==
    LET allCategories == inDisplayOrder(C)
        mainCategories == SelectSeq(allCategories, LAMBDA cat : ~Truthy(cat.parentId))
    IN  [i \in DOMAIN mainCategories |->
            Spread(mainCategories[i],
                   [children |-> SelectSeq(allCategories, LAMBDA cat : Truthy(cat.parentId))])]
getCategoriesHierarchy(C) ==
    LET allCategories == getAllCategories(C)
        mainCategories == SelectSeq(allCategories, LAMBDA cat : ~Truthy(cat.parentId))
    IN  [i \in DOMAIN mainCategories |->
            Spread(mainCategories[i],
                   [children |-> SelectSeq(allCategories,
                                        LAMBDA cat : cat.parentId = mainCategories[i].id)])]

getCategory(C, id) == FirstOf({c \in C : c.id = id})

getSubCategories(C, parentId) == inDisplayOrder({c \in C : c.parentId = parentId})

\* createCategory: the inserted row (defaults: parent_id NULL, display_order 0)
createCategoryRow(n, category) ==
    Spread([id |-> CategoryId(n), parentId |-> NULL, displayOrder |-> 0, createdAt |-> n],
           category)

\* the unique index on categories.slug
slugUnique(C) == \A a, b \in C : a.slug = b.slug => a = b

updateCategoryRows(C, id, updateData) ==
    {IF c.id = id THEN Spread(c, updateData) ELSE c : c \in C}

\* deleteCategory, first guard: the category has children
hasChildren_Never(C, id) == FALSE
hasChildren(C, id) == Len(getSubCategories(C, id)) > 0

\* deleteCategory, second guard: a product row carries the category's slug
\* (`(await this.getCategory(id))?.slug || ''`, no filter on is_active)
usedByProducts_ActiveOnly(C, P, id) ==
    LET category == getCategory(C, id)
        slug == IF category = UNDEFINED THEN "" ELSE category.slug
    IN  {p \in P : p.category = slug /\ p.isActive = TRUE} # {}
usedByProducts(C, P, id) ==
    LET category == getCategory(C, id)
        slug == IF category = UNDEFINED THEN "" ELSE category.slug
    IN  {p \in P : p.category = slug} # {}

\* deleteCategory: the categories afterwards
deleteCategoryRows_AllRows(C, P, id) ==
    IF hasChildren(C, id) THEN C
    ELSE IF usedByProducts(C, P, id) THEN C
    ELSE {}
deleteCategoryRows(C, P, id) ==
    IF hasChildren(C, id) THEN C
    ELSE IF usedByProducts(C, P, id) THEN C
    ELSE {c \in C : c.id # id}

\* deleteCategory: the returned boolean (rowCount > 0 of the DELETE)
deleteCategoryResult(C, P, id) ==
    IF hasChildren(C, id) THEN FALSE
    ELSE IF usedByProducts(C, P, id) THEN FALSE
    ELSE Cardinality({c \in C : c.id = id}) > 0

\* reorderCategories: the rows after the first n updates of the loop
\* (update i sets displayOrder = i of the row with id categoryIds[i], 0-based)
RECURSIVE reorderApplied_OneBased(_, _, _)
reorderApplied_OneBased(C, categoryIds, n) ==
    IF n = 0 THEN C
    ELSE {IF c.id = categoryIds[n] THEN [c EXCEPT !.displayOrder = n] ELSE c :
             c \in reorderApplied_OneBased(C, categoryIds, n - 1)}
RECURSIVE reorderApplied(_, _, _)
reorderApplied(C, categoryIds, n) ==
    IF n = 0 THEN C
    ELSE {IF c.id = categoryIds[n] THEN [c EXCEPT !.displayOrder = n - 1] ELSE c :
             c \in reorderApplied(C, categoryIds, n - 1)}

CreateCategory_Swallows(category) ==
    /\ catSeq < MaxCategories
    /\ LET row == createCategoryRow(catSeq + 1, category)
       IN  IF slugUnique(categories \cup {row})
           THEN /\ categories' = categories \cup {row}
                /\ catSeq' = catSeq + 1
                /\ ret' = Returned("createCategory", <<category>>, row)
           ELSE /\ UNCHANGED <<categories, catSeq>>
                /\ ret' = Returned("createCategory", <<category>>, UNDEFINED)
    /\ UNCHANGED <<users, products, bills, estimates,
                   homeSections, sectionSeq, homeSectionItems, itemSeq, calls, now>>
CreateCategory(category) ==
    /\ catSeq < MaxCategories
    /\ LET row == createCategoryRow(catSeq + 1, category)
       IN  IF slugUnique(categories \cup {row})
           THEN /\ categories' = categories \cup {row}
                /\ catSeq' = catSeq + 1
                /\ ret' = Returned("createCategory", <<category>>, row)
           ELSE /\ UNCHANGED <<categories, catSeq>>
                /\ ret' = Raised("createCategory", <<category>>, "unique violation: slug")
    /\ UNCHANGED <<users, products, bills, estimates,
                   homeSections, sectionSeq, homeSectionItems, itemSeq, calls, now>>

UpdateCategory(id, updateData) ==
    /\ LET after == updateCategoryRows(categories, id, updateData)
       IN  IF slugUnique(after)
           THEN /\ categories' = after
                /\ ret' = Returned("updateCategory", <<id, updateData>>, returning(after, id))
           ELSE /\ UNCHANGED categories
                /\ ret' = Raised("updateCategory", <<id, updateData>>, "unique violation: slug")
    /\ UNCHANGED <<users, products, catSeq, bills, estimates,
                   homeSections, sectionSeq, homeSectionItems, itemSeq, calls, now>>

DeleteCategory(id) ==
    /\ categories' = deleteCategoryRows(categories, products, id)
    /\ ret' = Returned("deleteCategory", <<id>>, deleteCategoryResult(categories, products, id))
    /\ UNCHANGED <<users, products, catSeq, bills, estimates,
                   homeSections, sectionSeq, homeSectionItems, itemSeq, calls, now>>

\* deleteCategory when calls overlap: the handler awaits four statements,
\* the children query, the category query (for the slug), the products
\* query and the DELETE, and other calls run between them.  A call in
\* flight holds its id, the statement it awaits next and the slug it read.
DeleteCategoryChildren(caller, id) ==
    /\ \A c \in calls : c.caller # caller
    /\ IF hasChildren(categories, id)
       THEN /\ ret' = Returned("deleteCategory", <<id>>, FALSE)
            /\ UNCHANGED calls
       ELSE /\ calls' = calls \cup {[caller |-> caller, op |-> "deleteCategory",
                                     id |-> id, next |-> "category", slug |-> ""]}
            /\ UNCHANGED ret
    /\ UNCHANGED <<users, products, categories, catSeq, bills, estimates,
                   homeSections, sectionSeq, homeSectionItems, itemSeq, now>>

\* (await this.getCategory(id))?.slug || ''
DeleteCategorySlug(caller) ==
    /\ \E c \in calls :
          /\ c.caller = caller
          /\ c.op = "deleteCategory"
          /\ c.next = "category"
          /\ LET category == getCategory(categories, c.id)
                 slug == IF category = UNDEFINED THEN "" ELSE category.slug
             IN  calls' = (calls \ {c}) \cup {[c EXCEPT !.next = "products", !.slug = slug]}
    /\ UNCHANGED <<users, products, categories, catSeq, bills, estimates,
                   homeSections, sectionSeq, homeSectionItems, itemSeq, now, ret>>

\* db.select().from(products).where(eq(products.category, slug))
DeleteCategoryProducts(caller) ==
    /\ \E c \in calls :
          /\ c.caller = caller
          /\ c.op = "deleteCategory"
          /\ c.next = "products"
          /\ IF {p \in products : p.category = c.slug} # {}
             THEN /\ calls' = calls \ {c}
                  /\ ret' = Returned("deleteCategory", <<c.id>>, FALSE)
             ELSE /\ calls' = (calls \ {c}) \cup {[c EXCEPT !.next = "delete"]}
                  /\ UNCHANGED ret
    /\ UNCHANGED <<users, products, categories, catSeq, bills, estimates,
                   homeSections, sectionSeq, homeSectionItems, itemSeq, now>>

\* db.delete(categories).where(eq(categories.id, id)); rowCount > 0
DeleteCategoryDelete(caller) ==
    /\ \E c \in calls :
          /\ c.caller = caller
          /\ c.op = "deleteCategory"
          /\ c.next = "delete"
          /\ categories' = {r \in categories : r.id # c.id}
          /\ ret' = Returned("deleteCategory", <<c.id>>,
                             Cardinality({r \in categories : r.id = c.id}) > 0)
          /\ calls' = calls \ {c}
    /\ UNCHANGED <<users, products, catSeq, bills, estimates,
                   homeSections, sectionSeq, homeSectionItems, itemSeq, now>>

\* reorderCategories when calls overlap: the loop awaits one UPDATE per id,
\* and other calls run between two of them.  A call in flight holds its list
\* and the number of updates it has made.  With an empty list the call
\* returns true at once.
ReorderCategoriesStart(caller, categoryIds) ==
    /\ \A c \in calls : c.caller # caller
    /\ IF Len(categoryIds) = 0
       THEN /\ ret' = Returned("reorderCategories", <<categoryIds, 0>>, TRUE)
            /\ UNCHANGED calls
       ELSE /\ calls' = calls \cup {[caller |-> caller, op |-> "reorderCategories",
                                     categoryIds |-> categoryIds, i |-> 0]}
            /\ UNCHANGED ret
    /\ UNCHANGED <<users, products, categories, catSeq, bills, estimates,
                   homeSections, sectionSeq, homeSectionItems, itemSeq, now>>

\* the update of index i, set({ displayOrder: i }) where id = categoryIds[i];
\* after the last one the call returns true
ReorderCategoriesUpdate_Batch(caller) ==
    /\ \E c \in calls :
          /\ c.caller = caller
          /\ c.op = "reorderCategories"
          /\ categories' = reorderApplied(categories, c.categoryIds, Len(c.categoryIds))
          /\ calls' = calls \ {c}
          /\ ret' = Returned("reorderCategories", <<c.categoryIds, 0>>, TRUE)
    /\ UNCHANGED <<users, products, catSeq, bills, estimates,
                   homeSections, sectionSeq, homeSectionItems, itemSeq, now>>
ReorderCategoriesUpdate(caller) ==
    /\ \E c \in calls :
          /\ c.caller = caller
          /\ c.op = "reorderCategories"
          /\ categories' = {IF r.id = c.categoryIds[c.i + 1]
                               THEN [r EXCEPT !.displayOrder = c.i] ELSE r : r \in categories}
          /\ IF c.i + 1 < Len(c.categoryIds)
             THEN /\ calls' = (calls \ {c}) \cup {[c EXCEPT !.i = c.i + 1]}
                  /\ UNCHANGED ret
             ELSE /\ calls' = calls \ {c}
                  /\ ret' = Returned("reorderCategories", <<c.categoryIds, 0>>, TRUE)
    /\ UNCHANGED <<users, products, catSeq, bills, estimates,
                   homeSections, sectionSeq, homeSectionItems, itemSeq, now>>

\* failAt = 0: no update fails; failAt = k: the k-th update throws, the catch
\* block returns false.  ret.args records the list and the fault.
ReorderCategories_Rollback(categoryIds, failAt) ==
    /\ failAt \in 0..Len(categoryIds)
    /\ IF failAt = 0
       THEN /\ categories' = reorderApplied(categories, categoryIds, Len(categoryIds))
            /\ ret' = Returned("reorderCategories", <<categoryIds, failAt>>, TRUE)
       ELSE /\ categories' = categories
            /\ ret' = Returned("reorderCategories", <<categoryIds, failAt>>, FALSE)
    /\ UNCHANGED <<users, products, catSeq, bills, estimates,
                   homeSections, sectionSeq, homeSectionItems, itemSeq, calls, now>>
ReorderCategories(categoryIds, failAt) ==
    /\ failAt \in 0..Len(categoryIds)
    /\ IF failAt = 0
       THEN /\ categories' = reorderApplied(categories, categoryIds, Len(categoryIds))
            /\ ret' = Returned("reorderCategories", <<categoryIds, failAt>>, TRUE)
       ELSE /\ categories' = reorderApplied(categories, categoryIds, failAt - 1)
            /\ ret' = Returned("reorderCategories", <<categoryIds, failAt>>, FALSE)
    /\ UNCHANGED <<users, products, catSeq, bills, estimates,
                   homeSections, sectionSeq, homeSectionItems, itemSeq, calls, now>>

GetCategoriesHierarchy ==
    /\ ret' = Returned("getCategoriesHierarchy", <<>>, getCategoriesHierarchy(categories))
    /\ UNCHANGED <<users, products, categories, catSeq, bills, estimates,
                   homeSections, sectionSeq, homeSectionItems, itemSeq, calls, now>>

-----------------------------------------------------------------------------
(* Estimates.  Columns: id, quotationNo, status, createdAt.  A timestamp   *)
(* is the calendar month it falls in, [year, month]: the first and the     *)
(* last instant of a month bound exactly the timestamps of that month.     *)

EstimateId(n) == "e" \o ToString(n)

\* String.prototype.padStart with a one-character filler
RECURSIVE padStart(_, _, _)
padStart(str, targetLength, padString) ==
    IF Len(str) >= targetLength THEN str
    ELSE padStart(padString \o str, targetLength, padString)

\* comparison of timestamps
gte(t, u) == t.year > u.year \/ (t.year = u.year /\ t.month >= u.month)
lte(t, u) == gte(u, t)

\* new Date(year, now.getMonth(), 1) and new Date(year, now.getMonth() + 1, 0, 23, 59, 59, 999)
startOfMonth(t) == [year |-> t.year, month |-> t.month]
endOfMonth(t) == [year |-> t.year, month |-> t.month]

\* the estimates createEstimate counts: created_at within the current month
monthlyEstimates_AfterStart(E, t) ==
    {e \in E : ~lte(e.createdAt, startOfMonth(t)) /\ lte(e.createdAt, endOfMonth(t))}
monthlyEstimates(E, t) ==
    {e \in E : gte(e.createdAt, startOfMonth(t)) /\ lte(e.createdAt, endOfMonth(t))}

\* the quotation number createEstimate generates: PJ-QTN-YYYY-MM-NNN
quotationNo(E, t) ==
    LET year == t.year
        month == padStart(ToString(t.month), 2, "0")
        sequentialNumber == padStart(ToString(Cardinality(monthlyEstimates(E, t)) + 1), 3, "0")
    IN  "PJ-QTN-" \o ToString(year) \o "-" \o month \o "-" \o sequentialNumber

\* createEstimate: the inserted row, {...insertEstimate, quotationNo}
\* (defaults: status PENDING, created_at now())
createEstimateRow_CallerWins(E, t, insertEstimate) ==
    Spread([id |-> EstimateId(Cardinality(E) + 1), status |-> "PENDING", createdAt |-> t],
           Spread([quotationNo |-> quotationNo(E, t)], insertEstimate))
createEstimateRow(E, t, insertEstimate) ==
    Spread([id |-> EstimateId(Cardinality(E) + 1), status |-> "PENDING", createdAt |-> t],
           Spread(insertEstimate, [quotationNo |-> quotationNo(E, t)]))

updateEstimateRows(E, id, updateData) ==
    {IF e.id = id THEN Spread(e, updateData) ELSE e : e \in E}

CreateEstimate(insertEstimate) ==
    /\ Cardinality(estimates) < MaxEstimates
    /\ LET row == createEstimateRow(estimates, now, insertEstimate)
       IN  /\ estimates' = estimates \cup {row}
           /\ ret' = Returned("createEstimate", <<insertEstimate>>, row)
    /\ UNCHANGED <<users, products, categories, catSeq, bills,
                   homeSections, sectionSeq, homeSectionItems, itemSeq, calls, now>>

UpdateEstimate_ReturnsAbsent(id, updateData) ==
    /\ estimates' = updateEstimateRows(estimates, id, updateData)
    /\ ret' = Returned("updateEstimate", <<id, updateData>>, returning(estimates', id))
    /\ UNCHANGED <<users, products, categories, catSeq, bills,
                   homeSections, sectionSeq, homeSectionItems, itemSeq, calls, now>>
UpdateEstimate(id, updateData) ==
    /\ estimates' = updateEstimateRows(estimates, id, updateData)
    /\ ret' = IF returning(estimates', id) = UNDEFINED
              THEN Raised("updateEstimate", <<id, updateData>>, "Estimate not found")
              ELSE Returned("updateEstimate", <<id, updateData>>, returning(estimates', id))
    /\ UNCHANGED <<users, products, categories, catSeq, bills,
                   homeSections, sectionSeq, homeSectionItems, itemSeq, calls, now>>

\* the months the clock has advanced since the initial state
monthsElapsed(t) == (t.year - 2026) * 12 + (t.month - 11)

\* time passes: the clock enters the next calendar month
Tick ==
    /\ monthsElapsed(now) < MaxMonths
    /\ now' = IF now.month = 12 THEN [year |-> now.year + 1, month |-> 1]
              ELSE [year |-> now.year, month |-> now.month + 1]
    /\ UNCHANGED <<users, products, categories, catSeq, bills, estimates,
                   homeSections, sectionSeq, homeSectionItems, itemSeq, calls, ret>>

\* createEstimate when calls overlap: the handler awaits two statements, the
\* count query and the insert, and other calls run between them.  A call in
\* flight holds estimateData, {...insertEstimate, quotationNo}, built from
\* the clock and the count it read.
estimateData(E, t, insertEstimate) ==
    Spread(insertEstimate, [quotationNo |-> quotationNo(E, t)])

\* db.insert(estimates).values(estimateData).returning(): the inserted row
\* (defaults: status PENDING, created_at now())
insertEstimateRow_Recount(E, t, data) ==
    Spread([id |-> EstimateId(Cardinality(E) + 1), status |-> "PENDING", createdAt |-> t],
           Spread(data, [quotationNo |-> quotationNo(E, t)]))
insertEstimateRow(E, t, data) ==
    Spread([id |-> EstimateId(Cardinality(E) + 1), status |-> "PENDING", createdAt |-> t],
           data)

\* the count query of a createEstimate call
CreateEstimateCount(caller, insertEstimate) ==
    /\ \A c \in calls : c.caller # caller
    /\ Cardinality(estimates) + Cardinality(calls) < MaxEstimates
    /\ calls' = calls \cup {[caller |-> caller, op |-> "createEstimate",
                              insertEstimate |-> insertEstimate,
                              estimateData |-> estimateData(estimates, now, insertEstimate)]}
    /\ UNCHANGED <<users, products, categories, catSeq, bills, estimates,
                   homeSections, sectionSeq, homeSectionItems, itemSeq, now, ret>>

\* the insert of a createEstimate call, and its return
CreateEstimateInsert(caller) ==
    /\ \E c \in calls :
          /\ c.caller = caller
          /\ c.op = "createEstimate"
          /\ LET row == insertEstimateRow(estimates, now, c.estimateData)
             IN  /\ estimates' = estimates \cup {row}
                 /\ ret' = Returned("createEstimate", <<c.insertEstimate>>, row)
          /\ calls' = calls \ {c}
    /\ UNCHANGED <<users, products, categories, catSeq, bills,
                   homeSections, sectionSeq, homeSectionItems, itemSeq, now>>

-----------------------------------------------------------------------------
(* Bills.  Columns: id, billNumber (unique, not null), subtotal,           *)
(* makingCharges, gst, vat, discount, total.  The money columns are        *)
(* decimal(12, 2): a stored amount is a whole number of cents.  An amount  *)
(* a caller supplies is a decimal string; the model holds its numeric      *)
(* value, a whole number of half cents (Number(s) of the code).            *)

BillId(n) == "b" \o ToString(n)

\* a value written to a decimal(12, 2) column: rounded to cents, half away
\* from zero
toDecimal2(halfCents) ==
    IF halfCents >= 0 THEN (halfCents + 1) \div 2 ELSE -((-halfCents + 1) \div 2)

\* createBill: Number(subtotal) + Number(makingCharges) + Number(gst) - Number(discount || 0)
createBillTotal_CallerTotal(bill) ==
    IF "total" \in DOMAIN bill THEN bill.total
    ELSE bill.subtotal + bill.makingCharges + bill.gst
           - (IF "discount" \in DOMAIN bill THEN bill.discount ELSE 0)
createBillTotal(bill) ==
    bill.subtotal + bill.makingCharges + bill.gst
      - (IF "discount" \in DOMAIN bill THEN bill.discount ELSE 0)

MoneyColumns == {"subtotal", "makingCharges", "gst", "vat", "discount", "total", "paidAmount"}

\* createBill: the inserted row, {...bill, total} (defaults: vat 0, discount 0,
\* created_at now(): the keys created_at and updated_at of the values are not
\* columns of the table object)
createBillRow(B, t, bill) ==
    LET values == Spread(bill, [total |-> createBillTotal(bill)])
        row == Spread([id |-> BillId(Cardinality(B) + 1), billNumber |-> NULL,
                       vat |-> 0, discount |-> 0, createdAt |-> t], values)
    IN  [c \in DOMAIN row |-> IF c \in MoneyColumns THEN toDecimal2(row[c]) ELSE row[c]]

\* the constraints of the insert: bill_number NOT NULL and UNIQUE
billInsertError(B, row) ==
    IF row.billNumber = NULL THEN "not-null violation: bill_number"
    ELSE IF \E b \in B : b.billNumber = row.billNumber THEN "unique violation: bill_number"
    ELSE "none"

\* createBill returns what .returning() gives, the array of the inserted row
CreateBill(bill) ==
    /\ LET row == createBillRow(bills, now, bill)
       IN  IF billInsertError(bills, row) # "none"
           THEN /\ UNCHANGED bills
                /\ ret' = Raised("createBill", <<bill>>, billInsertError(bills, row))
           ELSE /\ Cardinality(bills) < MaxBills
                /\ bills' = bills \cup {row}
                /\ ret' = Returned("createBill", <<bill>>, <<row>>)
    /\ UNCHANGED <<users, products, categories, catSeq, estimates,
                   homeSections, sectionSeq, homeSectionItems, itemSeq, calls, now>>

\* updateBill: Number(billData.subtotal || 0) + Number(billData.makingCharges || 0)
\*   + Number(billData.gst || 0) - Number(billData.discount || 0)
updateBillTotal(billData) ==
    (IF "subtotal" \in DOMAIN billData THEN billData.subtotal ELSE 0)
      + (IF "makingCharges" \in DOMAIN billData THEN billData.makingCharges ELSE 0)
      + (IF "gst" \in DOMAIN billData THEN billData.gst ELSE 0)
      - (IF "discount" \in DOMAIN billData THEN billData.discount ELSE 0)

\* updateBill: UPDATE bills SET {...billData, total} WHERE id = $1
updateBillRows(B, id, billData) ==
    LET values == Spread(billData, [total |-> updateBillTotal(billData)])
        written == [c \in DOMAIN values |->
                       IF c \in MoneyColumns THEN toDecimal2(values[c]) ELSE values[c]]
    IN  {IF b.id = id THEN Spread(b, written) ELSE b : b \in B}

UpdateBill(id, billData) ==
    /\ bills' = updateBillRows(bills, id, billData)
    /\ ret' = Returned("updateBill", <<id, billData>>, returning(bills', id))
    /\ UNCHANGED <<users, products, categories, catSeq, estimates,
                   homeSections, sectionSeq, homeSectionItems, itemSeq, calls, now>>

\* ORDER BY created_at DESC: the sequences of the rows in which created_at
\* never increases (rows of equal created_at come in an order the store
\* chooses)
byCreatedAtDesc(rows) ==
    {s \in [1..Cardinality(rows) -> rows] :
        /\ \A r \in rows : \E k \in 1..Cardinality(rows) : s[k] = r
        /\ \A k, l \in 1..Cardinality(rows) : k < l => gte(s[k].createdAt, s[l].createdAt)}

\* getBillsByDateRange: WHERE created_at = startDate AND created_at = endDate
getBillsByDateRange(B, startDate, endDate) ==
    byCreatedAtDesc({b \in B : b.createdAt = startDate /\ b.createdAt = endDate})

GetBillsByDateRange(startDate, endDate) ==
    /\ \E result \in getBillsByDateRange(bills, startDate, endDate) :
          ret' = Returned("getBillsByDateRange", <<startDate, endDate>>, result)
    /\ UNCHANGED <<users, products, categories, catSeq, bills, estimates,
                   homeSections, sectionSeq, homeSectionItems, itemSeq, calls, now>>

-----------------------------------------------------------------------------
(* Users.  Columns: id, email (unique), password, stripeCustomerId,        *)
(* stripeSubscriptionId, otpCode, otpExpiry (a timestamp or null),         *)
(* otpVerified.  A stored password is a bcrypt hash: the cost, a salt      *)
(* drawn at hashing time and the digest of salt and plaintext, which only  *)
(* the same plaintext reproduces.                                          *)

UserId(n) == "u" \o ToString(n)

\* bcrypt.hash(password, 10) with the salt it generated
bcryptHash(password, cost, salt) ==
    [cost |-> cost, salt |-> salt, digest |-> <<salt, password>>]

\* bcrypt.compare(password, hash)
bcryptCompare(password, hash) == hash.digest = <<hash.salt, password>>

getUserByEmail(U, email) == FirstOf({u \in U : u.email = email})

\* createUser: the inserted row, {...insertUser, password: hashedPassword}
\* (defaults: the nullable columns NULL, otp_verified false)
createUserRow(U, insertUser, salt) ==
    Spread([id |-> UserId(Cardinality(U) + 1), phone |-> NULL, stripeCustomerId |-> NULL,
            stripeSubscriptionId |-> NULL, otpCode |-> NULL, otpExpiry |-> JSNULL,
            otpVerified |-> FALSE],
           Spread(insertUser, [password |-> bcryptHash(insertUser.password, 10, salt)]))

\* the unique index on users.email
emailUnique_NotEnforced(U) == TRUE
emailUnique(U) == \A a, b \in U : a.email = b.email => a = b

updateUserPasswordRows_NotWritten(U, userId, newPassword, salt) == U
updateUserPasswordRows_ClearsOtp(U, userId, newPassword, salt) ==
    {IF u.id = userId
     THEN [u EXCEPT !.password = bcryptHash(newPassword, 10, salt),
                    !.otpCode = NULL, !.otpExpiry = JSNULL, !.otpVerified = FALSE]
     ELSE u : u \in U}
updateUserPasswordRows_AllUsers(U, userId, newPassword, salt) ==
    {Spread(u, [password |-> bcryptHash(newPassword, 10, salt)]) : u \in U}
updateUserPasswordRows(U, userId, newPassword, salt) ==
    {IF u.id = userId THEN Spread(u, [password |-> bcryptHash(newPassword, 10, salt)]) ELSE u :
        u \in U}

\* db.update(users).set(values).where(eq(users.id, userId))
setUserRows(U, userId, values) ==
    {IF u.id = userId THEN Spread(u, values) ELSE u : u \in U}

updateStripeCustomerIdRows(U, userId, customerId) ==
    setUserRows(U, userId, [stripeCustomerId |-> customerId])

updateUserStripeInfoRows(U, userId, stripeInfo) ==
    setUserRows(U, userId, [stripeCustomerId |-> stripeInfo.customerId,
                            stripeSubscriptionId |-> stripeInfo.subscriptionId])

updateUserOtpRows_KeepsVerified(U, userId, otpCode, otpExpiry) ==
    setUserRows(U, userId, [otpCode |-> otpCode, otpExpiry |-> otpExpiry])
updateUserOtpRows(U, userId, otpCode, otpExpiry) ==
    setUserRows(U, userId, [otpCode |-> otpCode, otpExpiry |-> otpExpiry,
                            otpVerified |-> FALSE])

updateUserOtpVerifiedRows(U, userId, verified) ==
    setUserRows(U, userId, [otpVerified |-> verified])

clearUserOtpRows(U, userId) ==
    setUserRows(U, userId, [otpCode |-> NULL, otpExpiry |-> JSNULL, otpVerified |-> FALSE])

\* authenticateUser: the user of that email if the password verifies, else null
authenticateUser_AnyPassword(U, email, password) ==
    LET user == getUserByEmail(U, email)
    IN  IF user = UNDEFINED THEN JSNULL ELSE user
authenticateUser(U, email, password) ==
    LET user == getUserByEmail(U, email)
    IN  IF user = UNDEFINED THEN JSNULL
        ELSE IF bcryptCompare(password, user.password) THEN user ELSE JSNULL

CreateUser(insertUser, salt) ==
    /\ LET row == createUserRow(users, insertUser, salt)
       IN  IF emailUnique(users \cup {row})
           THEN /\ Cardinality(users) < MaxUsers
                /\ users' = users \cup {row}
                /\ ret' = Returned("createUser", <<insertUser>>, row)
           ELSE /\ UNCHANGED users
                /\ ret' = Raised("createUser", <<insertUser>>, "unique violation: email")
    /\ UNCHANGED <<products, categories, catSeq, bills, estimates,
                   homeSections, sectionSeq, homeSectionItems, itemSeq, calls, now>>

UpdateUserPassword(userId, newPassword, salt) ==
    /\ users' = updateUserPasswordRows(users, userId, newPassword, salt)
    /\ ret' = Returned("updateUserPassword", <<userId, newPassword>>, returning(users', userId))
    /\ UNCHANGED <<products, categories, catSeq, bills, estimates,
                   homeSections, sectionSeq, homeSectionItems, itemSeq, calls, now>>

UpdateStripeCustomerId(userId, customerId) ==
    /\ users' = updateStripeCustomerIdRows(users, userId, customerId)
    /\ ret' = Returned("updateStripeCustomerId", <<userId, customerId>>,
                       returning(users', userId))
    /\ UNCHANGED <<products, categories, catSeq, bills, estimates,
                   homeSections, sectionSeq, homeSectionItems, itemSeq, calls, now>>

UpdateUserStripeInfo(userId, stripeInfo) ==
    /\ users' = updateUserStripeInfoRows(users, userId, stripeInfo)
    /\ ret' = Returned("updateUserStripeInfo", <<userId, stripeInfo>>,
                       returning(users', userId))
    /\ UNCHANGED <<products, categories, catSeq, bills, estimates,
                   homeSections, sectionSeq, homeSectionItems, itemSeq, calls, now>>

UpdateUserOtp(userId, otpCode, otpExpiry) ==
    /\ users' = updateUserOtpRows(users, userId, otpCode, otpExpiry)
    /\ ret' = Returned("updateUserOtp", <<userId, otpCode, otpExpiry>>,
                       returning(users', userId))
    /\ UNCHANGED <<products, categories, catSeq, bills, estimates,
                   homeSections, sectionSeq, homeSectionItems, itemSeq, calls, now>>

UpdateUserOtpVerified(userId, verified) ==
    /\ users' = updateUserOtpVerifiedRows(users, userId, verified)
    /\ ret' = Returned("updateUserOtpVerified", <<userId, verified>>,
                       returning(users', userId))
    /\ UNCHANGED <<products, categories, catSeq, bills, estimates,
                   homeSections, sectionSeq, homeSectionItems, itemSeq, calls, now>>

ClearUserOtp(userId) ==
    /\ users' = clearUserOtpRows(users, userId)
    /\ ret' = Returned("clearUserOtp", <<userId>>, returning(users', userId))
    /\ UNCHANGED <<products, categories, catSeq, bills, estimates,
                   homeSections, sectionSeq, homeSectionItems, itemSeq, calls, now>>

AuthenticateUser(email, password) ==
    /\ ret' = Returned("authenticateUser", <<email, password>>,
                       authenticateUser(users, email, password))
    /\ UNCHANGED <<users, products, categories, catSeq, bills, estimates,
                   homeSections, sectionSeq, homeSectionItems, itemSeq, calls, now>>

-----------------------------------------------------------------------------
(* Home sections and their items.  Columns of home_sections: id, title,    *)
(* isActive.  Columns of home_section_items: id, sectionId, productId,     *)
(* position; section_id and product_id are plain varchar columns, no       *)
(* foreign key is declared on them.                                        *)

HomeSectionId(n) == "s" \o ToString(n)

HomeSectionItemId(n) == "i" \o ToString(n)

\* createHomeSection: the inserted row (default: is_active true)
createHomeSectionRow(n, sectionData) ==
    Spread([id |-> HomeSectionId(n), isActive |-> TRUE], sectionData)

updateHomeSectionRows(S, id, updateData) ==
    {IF s.id = id THEN Spread(s, updateData) ELSE s : s \in S}

\* addHomeSectionItem: the inserted row (default: position 0)
addHomeSectionItemRow(n, itemData) ==
    Spread([id |-> HomeSectionItemId(n), position |-> 0], itemData)

updateHomeSectionItemRows(I, itemId, updateData) ==
    {IF i.id = itemId THEN Spread(i, updateData) ELSE i : i \in I}

\* FROM home_section_items INNER JOIN products ON product_id = products.id
\* WHERE section_id = $1: one row per pair of an item and the product row
\* of its productId, the product row under the key `product`
joinedHomeSectionItems(I, P, sectionId) ==
    {Spread(i, [product |-> p]) :
        <<i, p>> \in {<<i, p>> \in I \X P : i.sectionId = sectionId /\ i.productId = p.id}}

\* ORDER BY position: the sequences of the rows in which the positions never
\* decrease (rows of equal position come in an order the store chooses)
byPosition(rows) ==
    {s \in [1..Cardinality(rows) -> rows] :
        /\ \A r \in rows : \E k \in 1..Cardinality(rows) : s[k] = r
        /\ \A k, l \in 1..Cardinality(rows) : k < l => s[k].position <= s[l].position}

\* getHomeSectionItems: the results the call may return
getHomeSectionItems(I, P, sectionId) == byPosition(joinedHomeSectionItems(I, P, sectionId))

CreateHomeSection(sectionData) ==
    /\ sectionSeq < MaxSections
    /\ LET row == createHomeSectionRow(sectionSeq + 1, sectionData)
       IN  /\ homeSections' = homeSections \cup {row}
           /\ sectionSeq' = sectionSeq + 1
           /\ ret' = Returned("createHomeSection", <<sectionData>>, row)
    /\ UNCHANGED <<users, products, categories, catSeq, bills, estimates,
                   homeSectionItems, itemSeq, calls, now>>

UpdateHomeSection(id, updateData) ==
    /\ homeSections' = updateHomeSectionRows(homeSections, id, updateData)
    /\ ret' = Returned("updateHomeSection", <<id, updateData>>, returning(homeSections', id))
    /\ UNCHANGED <<users, products, categories, catSeq, bills, estimates,
                   sectionSeq, homeSectionItems, itemSeq, calls, now>>

AddHomeSectionItem(itemData) ==
    /\ itemSeq < MaxItems
    /\ LET row == addHomeSectionItemRow(itemSeq + 1, itemData)
       IN  /\ homeSectionItems' = homeSectionItems \cup {row}
           /\ itemSeq' = itemSeq + 1
           /\ ret' = Returned("addHomeSectionItem", <<itemData>>, row)
    /\ UNCHANGED <<users, products, categories, catSeq, bills, estimates,
                   homeSections, sectionSeq, calls, now>>

UpdateHomeSectionItem(itemId, updateData) ==
    /\ homeSectionItems' = updateHomeSectionItemRows(homeSectionItems, itemId, updateData)
    /\ ret' = Returned("updateHomeSectionItem", <<itemId, updateData>>,
                       returning(homeSectionItems', itemId))
    /\ UNCHANGED <<users, products, categories, catSeq, bills, estimates,
                   homeSections, sectionSeq, itemSeq, calls, now>>

\* DELETE FROM home_section_items WHERE id = $1; rowCount > 0
DeleteHomeSectionItem(itemId) ==
    /\ homeSectionItems' = {i \in homeSectionItems : i.id # itemId}
    /\ ret' = Returned("deleteHomeSectionItem", <<itemId>>,
                       Cardinality({i \in homeSectionItems : i.id = itemId}) > 0)
    /\ UNCHANGED <<users, products, categories, catSeq, bills, estimates,
                   homeSections, sectionSeq, itemSeq, calls, now>>

\* DELETE FROM home_section_items WHERE section_id = $1
deleteSectionItemsRows_AllItems(I, id) == {}
deleteSectionItemsRows(I, id) == {i \in I : i.sectionId # id}

\* deleteHomeSection run without another call in between: the items of the
\* section are deleted, then the section; rowCount > 0 of the second DELETE
DeleteHomeSection(id) ==
    /\ homeSectionItems' = deleteSectionItemsRows(homeSectionItems, id)
    /\ homeSections' = {s \in homeSections : s.id # id}
    /\ ret' = Returned("deleteHomeSection", <<id>>,
                       Cardinality({s \in homeSections : s.id = id}) > 0)
    /\ UNCHANGED <<users, products, categories, catSeq, bills, estimates,
                   sectionSeq, itemSeq, calls, now>>

\* deleteHomeSection when calls overlap: the handler awaits its two DELETE
\* statements one after the other, and other calls run between them.  A
\* call in flight holds the id of its section.
DeleteHomeSectionDeleteItems(caller, id) ==
    /\ \A c \in calls : c.caller # caller
    /\ homeSectionItems' = deleteSectionItemsRows(homeSectionItems, id)
    /\ calls' = calls \cup {[caller |-> caller, op |-> "deleteHomeSection", id |-> id]}
    /\ UNCHANGED <<users, products, categories, catSeq, bills, estimates,
                   homeSections, sectionSeq, itemSeq, now, ret>>

DeleteHomeSectionDeleteSection(caller) ==
    /\ \E c \in calls :
          /\ c.caller = caller
          /\ c.op = "deleteHomeSection"
          /\ homeSections' = {s \in homeSections : s.id # c.id}
          /\ ret' = Returned("deleteHomeSection", <<c.id>>,
                             Cardinality({s \in homeSections : s.id = c.id}) > 0)
          /\ calls' = calls \ {c}
    /\ UNCHANGED <<users, products, categories, catSeq, bills, estimates,
                   sectionSeq, homeSectionItems, itemSeq, now>>

GetHomeSectionItems(sectionId) ==
    /\ \E items \in getHomeSectionItems(homeSectionItems, products, sectionId) :
           ret' = Returned("getHomeSectionItems", <<sectionId>>, items)
    /\ UNCHANGED <<users, products, categories, catSeq, bills, estimates,
                   homeSections, sectionSeq, homeSectionItems, itemSeq, calls, now>>

-----------------------------------------------------------------------------
(* The reads of one row by a key: SELECT ... WHERE column = $1, the first  *)
(* row of the result (`const [row] = ...`), undefined if there is none.    *)

getUser(U, id) == FirstOf({u \in U : u.id = id})

getUserByPhone(U, phone) == FirstOf({u \in U : u.phone = phone})

getBill(B, id) == FirstOf({b \in B : b.id = id})

getBillById(B, id) == FirstOf({b \in B : b.id = id})

getBillByNumber(B, billNumber) == FirstOf({b \in B : b.billNumber = billNumber})

getEstimate(E, id) == FirstOf({e \in E : e.id = id})

getCategoryBySlug(C, slug) == FirstOf({c \in C : c.slug = slug})

GetUser(id) ==
    /\ ret' = Returned("getUser", <<id>>, getUser(users, id))
    /\ UNCHANGED <<users, products, categories, catSeq, bills, estimates,
                   homeSections, sectionSeq, homeSectionItems, itemSeq, calls, now>>

GetUserByEmail(email) ==
    /\ ret' = Returned("getUserByEmail", <<email>>, getUserByEmail(users, email))
    /\ UNCHANGED <<users, products, categories, catSeq, bills, estimates,
                   homeSections, sectionSeq, homeSectionItems, itemSeq, calls, now>>

GetUserByPhone(phone) ==
    /\ ret' = Returned("getUserByPhone", <<phone>>, getUserByPhone(users, phone))
    /\ UNCHANGED <<users, products, categories, catSeq, bills, estimates,
                   homeSections, sectionSeq, homeSectionItems, itemSeq, calls, now>>

GetBill(id) ==
    /\ ret' = Returned("getBill", <<id>>, getBill(bills, id))
    /\ UNCHANGED <<users, products, categories, catSeq, bills, estimates,
                   homeSections, sectionSeq, homeSectionItems, itemSeq, calls, now>>

GetBillById(id) ==
    /\ ret' = Returned("getBillById", <<id>>, getBillById(bills, id))
    /\ UNCHANGED <<users, products, categories, catSeq, bills, estimates,
                   homeSections, sectionSeq, homeSectionItems, itemSeq, calls, now>>

GetBillByNumber(billNumber) ==
    /\ ret' = Returned("getBillByNumber", <<billNumber>>, getBillByNumber(bills, billNumber))
    /\ UNCHANGED <<users, products, categories, catSeq, bills, estimates,
                   homeSections, sectionSeq, homeSectionItems, itemSeq, calls, now>>

GetEstimate_Raises(id) ==
    /\ IF getEstimate(estimates, id) = UNDEFINED
       THEN ret' = Raised("getEstimate", <<id>>, "Estimate not found")
       ELSE ret' = Returned("getEstimate", <<id>>, getEstimate(estimates, id))
    /\ UNCHANGED <<users, products, categories, catSeq, bills, estimates,
                   homeSections, sectionSeq, homeSectionItems, itemSeq, calls, now>>
GetEstimate(id) ==
    /\ ret' = Returned("getEstimate", <<id>>, getEstimate(estimates, id))
    /\ UNCHANGED <<users, products, categories, catSeq, bills, estimates,
                   homeSections, sectionSeq, homeSectionItems, itemSeq, calls, now>>

GetCategory(id) ==
    /\ ret' = Returned("getCategory", <<id>>, getCategory(categories, id))
    /\ UNCHANGED <<users, products, categories, catSeq, bills, estimates,
                   homeSections, sectionSeq, homeSectionItems, itemSeq, calls, now>>

GetCategoryBySlug(slug) ==
    /\ ret' = Returned("getCategoryBySlug", <<slug>>, getCategoryBySlug(categories, slug))
    /\ UNCHANGED <<users, products, categories, catSeq, bills, estimates,
                   homeSections, sectionSeq, homeSectionItems, itemSeq, calls, now>>

\* getHomeSection: undefined without the section row, else {...section, items}
GetHomeSection(id) ==
    /\ LET section == FirstOf({s \in homeSections : s.id = id})
       IN  IF section = UNDEFINED
           THEN ret' = Returned("getHomeSection", <<id>>, UNDEFINED)
           ELSE \E items \in getHomeSectionItems(homeSectionItems, products, id) :
                    ret' = Returned("getHomeSection", <<id>>,
                                    Spread(section, [items |-> items]))
    /\ UNCHANGED <<users, products, categories, catSeq, bills, estimates,
                   homeSections, sectionSeq, homeSectionItems, itemSeq, calls, now>>

-----------------------------------------------------------------------------
(* Initial state: empty tables, no call made yet.                          *)

Init ==
    /\ users = {}
    /\ products = {}
    /\ categories = {}
    /\ catSeq = 0
    /\ bills = {}
    /\ estimates = {}
    /\ homeSections = {}
    /\ sectionSeq = 0
    /\ homeSectionItems = {}
    /\ itemSeq = 0
    /\ calls = {}
    /\ now = [year |-> 2026, month |-> 11]
    /\ ret = Returned("none", <<>>, UNDEFINED)

-----------------------------------------------------------------------------
(* The product operations, called one after the other with any inputs.     *)

Slugs == {"rings", "chains"}

\* the ids calls are made with: of rows that are stored and of rows that are
\* not created yet
ProductIds == {ProductId(n) : n \in 1..MaxProducts}

\* InsertProduct: isActive is optional
ProductInputs == [category : Slugs] \cup [category : Slugs, isActive : BOOLEAN]

\* Partial<InsertProduct>
ProductPatches == [category : Slugs] \cup [isActive : BOOLEAN]
                    \cup [category : Slugs, isActive : BOOLEAN]

NextProducts ==
    \/ \E product \in ProductInputs : CreateProduct(product)
    \/ \E id \in ProductIds, patch \in ProductPatches : UpdateProduct(id, patch)
    \/ \E id \in ProductIds : DeleteProduct(id)
    \/ GetAllProducts
    \/ \E id \in ProductIds : GetProduct(id)
    \/ \E category \in Slugs : GetProductsByCategory(category)

SpecProducts == Init /\ [][NextProducts]_vars

\* C2: whatever createProduct, updateProduct and deleteProduct calls came
\* before, a product returned by getAllProducts, getProduct or
\* getProductsByCategory is active.
C2_ReadsReturnOnlyActive ==
    /\ ret.op \in {"getAllProducts", "getProductsByCategory"} =>
           \A i \in DOMAIN ret.val : ret.val[i].isActive = TRUE
    /\ (ret.op = "getProduct" /\ ret.val # UNDEFINED) => ret.val.isActive = TRUE

\* an inactive product is stored and getAllProducts has just left it out
C2_Witness ==
    /\ ret.op = "getAllProducts"
    /\ \E p \in products : p.isActive = FALSE
    /\ \E p \in products : p.isActive = TRUE
    /\ Len(ret.val) = 1

\* C3: getProduct(id) called right after deleteProduct(id) returns undefined.
C3_DeleteThenGetIsAbsent ==
    [][(ret.op = "deleteProduct" /\ ret'.op = "getProduct" /\ ret'.args = ret.args)
          => ret'.val = UNDEFINED]_vars

\* getProduct(id) has just found nothing although a row with that id is
\* stored: the row is a soft-deleted one
C3_Witness ==
    /\ ret.op = "getProduct"
    /\ \E p \in products : p.id = ret.args[1] /\ p.isActive = FALSE
    /\ ret.val = UNDEFINED

\* C24: deleteProduct(id) returns true iff a product row with that id is
\* stored, active or not; it sets that row's isActive to false, removes no
\* row and leaves every other product, every other field and every other
\* table as they are; on a row that is inactive already it returns true
\* and changes nothing.
C24_DeleteProductIsSoftAndIdempotent ==
    [][ret'.op = "deleteProduct" =>
          /\ ret'.val = (\E p \in products : p.id = ret'.args[1])
          /\ Cardinality(products') = Cardinality(products)
          /\ \A p \in products :
                \E q \in products' :
                    /\ q.id = p.id
                    /\ \A f \in DOMAIN p : (f # "isActive" \/ p.id # ret'.args[1]) => q[f] = p[f]
                    /\ DOMAIN q = DOMAIN p
                    /\ p.id = ret'.args[1] => q.isActive = FALSE
          /\ (\A p \in products : p.id = ret'.args[1] => p.isActive = FALSE)
                => products' = products
          /\ UNCHANGED <<users, categories, bills, estimates, homeSections, homeSectionItems>>]_vars

\* deleteProduct has just returned true for a stored product, now inactive,
\* while another product is stored and active
C24_Witness ==
    /\ ret.op = "deleteProduct"
    /\ ret.val = TRUE
    /\ \E p, q \in products :
          /\ p.id = ret.args[1]
          /\ p.isActive = FALSE
          /\ q.id # p.id
          /\ q.isActive = TRUE

-----------------------------------------------------------------------------
(* The category operations.                                                *)

CategoryIds == {CategoryId(n) : n \in 1..MaxCategories}

\* parentId as a caller may supply it: none, the empty string, the id of a
\* stored category or an id no category has (yet, or any more)
ParentIds == {NULL, ""} \cup CategoryIds

\* the slug of the n-th insert of a run that never repeats a slug
SlugOf(n) == "category-" \o ToString(n)

\* the id lists of reorderCategories
IdLists == UNION {[1..n -> CategoryIds] : n \in 0..MaxCategories}

\* The tree: categories are created and re-parented with any parentId and
\* deleted; the hierarchy is read.  Slugs are all different (a repeated slug
\* only makes the insert fail).
NextHierarchy ==
    \/ \E parentId \in ParentIds :
           \/ CreateCategory([slug |-> SlugOf(catSeq + 1), parentId |-> parentId])
           \/ CreateCategory([slug |-> SlugOf(catSeq + 1), parentId |-> parentId,
                              displayOrder |-> 1])
    \/ \E id \in CategoryIds, parentId \in ParentIds :
           UpdateCategory(id, [parentId |-> parentId])
    \/ \E id \in CategoryIds : DeleteCategory(id)
    \/ GetCategoriesHierarchy

SpecHierarchy == Init /\ [][NextHierarchy]_vars

\* The order: parentless categories are created, given a displayOrder,
\* reordered (with and without a failing update) and deleted.
NextReorder ==
    \/ CreateCategory([slug |-> SlugOf(catSeq + 1)])
    \/ \E id \in CategoryIds, displayOrder \in 0..MaxCategories :
           UpdateCategory(id, [displayOrder |-> displayOrder])
    \/ \E id \in CategoryIds : DeleteCategory(id)
    \/ \E categoryIds \in IdLists, failAt \in 0..MaxCategories :
           ReorderCategories(categoryIds, failAt)

SpecReorder == Init /\ [][NextReorder]_vars

\* The deletion guards: categories with slugs and parents, products with a
\* category slug, soft deletion of products, deletion of categories.
MaxCatalogProducts == 1

CatalogProductIds == {ProductId(n) : n \in 1..MaxCatalogProducts}

NextCatalog ==
    \/ \E category \in [slug : Slugs] \cup [slug : Slugs, parentId : {NULL} \cup CategoryIds] :
           CreateCategory(category)
    \/ \E id \in CategoryIds, updateData \in [slug : Slugs] \cup [parentId : {NULL} \cup CategoryIds] :
           UpdateCategory(id, updateData)
    \/ \E id \in CategoryIds : DeleteCategory(id)
    \/ \E product \in ProductInputs :
           Cardinality(products) < MaxCatalogProducts /\ CreateProduct(product)
    \/ \E id \in CatalogProductIds, patch \in [category : Slugs] \cup [isActive : BOOLEAN] :
           UpdateProduct(id, patch)
    \/ \E id \in CatalogProductIds : DeleteProduct(id)

SpecCatalog == Init /\ [][NextCatalog]_vars

-----------------------------------------------------------------------------
(* Properties of the category operations.                                  *)

CategoryStored(C, id) == \E c \in C : c.id = id

HasChildRow(C, id) == \E c \in C : c.parentId = id

HasProductRow(C, P, id) == \E c \in C, p \in P : c.id = id /\ p.category = c.slug

\* C1: deleteCategory(C.id) of a stored category C that has a category with
\* parentId = C.id or a product with category = C.slug returns false, and no
\* category and no product changes.
C1_GuardedDeleteRefused ==
    [][( /\ ret'.op = "deleteCategory"
         /\ CategoryStored(categories, ret'.args[1])
         /\ \/ HasChildRow(categories, ret'.args[1])
            \/ HasProductRow(categories, products, ret'.args[1]) )
       => ( /\ ret'.kind = "return"
            /\ ret'.val = FALSE
            /\ categories' = categories
            /\ products' = products )]_vars

\* deleteCategory has just refused a category that has a child and no product
C1_Witness ==
    /\ ret.op = "deleteCategory"
    /\ ret.val = FALSE
    /\ CategoryStored(categories, ret.args[1])
    /\ HasChildRow(categories, ret.args[1])
    /\ ~HasProductRow(categories, products, ret.args[1])

\* C10: a soft-deleted product still blocks the deletion of its category:
\* deleteCategory(C.id) returns false and C remains when some product row,
\* active or not, has category = C.slug.
C10_SoftDeletedProductBlocks ==
    [][ret'.op = "deleteCategory" =>
          \A c \in categories :
              ( /\ c.id = ret'.args[1]
                /\ \E p \in products : p.category = c.slug /\ p.isActive = FALSE )
              => (ret'.val = FALSE /\ c \in categories')]_vars

\* deleteCategory has just refused a childless category whose only products
\* are soft-deleted ones
C10_Witness ==
    /\ ret.op = "deleteCategory"
    /\ ret.val = FALSE
    /\ \E c \in categories :
          /\ c.id = ret.args[1]
          /\ ~HasChildRow(categories, c.id)
          /\ \E p \in products : p.category = c.slug
          /\ \A p \in products : p.category = c.slug => p.isActive = FALSE

\* C11: deleteCategory(C.id) of a stored category C that no category has as
\* its parent and no product names by its slug removes exactly C, returns
\* true, and leaves every other category and every product as it was.
C11_UnguardedDeleteRemovesExactlyOne ==
    [][( /\ ret'.op = "deleteCategory"
         /\ CategoryStored(categories, ret'.args[1])
         /\ ~HasChildRow(categories, ret'.args[1])
         /\ ~HasProductRow(categories, products, ret'.args[1]) )
       => ( /\ ret'.kind = "return"
            /\ ret'.val = TRUE
            /\ ~CategoryStored(categories', ret'.args[1])
            /\ \A c \in categories : c.id # ret'.args[1] => c \in categories'
            /\ categories' \subseteq categories
            /\ products' = products )]_vars

\* deleteCategory has just removed a category while another category and a
\* product of that other category are stored
C11_Witness ==
    /\ ret.op = "deleteCategory"
    /\ ret.val = TRUE
    /\ ~CategoryStored(categories, ret.args[1])
    /\ \E c \in categories, p \in products : p.category = c.slug

\* how often the category id occurs in a hierarchy: as a root entry or in a
\* children list
Occurrences(h, id) ==
    Cardinality({i \in DOMAIN h : h[i].id = id})
    + Cardinality(UNION {{<<i, j>> : j \in {k \in DOMAIN h[i].children :
                                              h[i].children[k].id = id}} :
                         i \in DOMAIN h})

IsRootEntry(h, id) == \E i \in DOMAIN h : h[i].id = id

IsChildEntryOf(h, id, parentId) ==
    \E i \in DOMAIN h : h[i].id = parentId /\ \E k \in DOMAIN h[i].children :
                                                  h[i].children[k].id = id

\* C4 as stated: every stored category, whatever its parentId, occurs in the
\* hierarchy exactly once, as a root if it has no parent and in one children
\* list otherwise.
C4_EveryCategoryExactlyOnce ==
    ret.op = "getCategoriesHierarchy" =>
        \A c \in categories :
            /\ Occurrences(ret.val, c.id) = 1
            /\ ~Truthy(c.parentId) <=> IsRootEntry(ret.val, c.id)

\* C4 amended: a category occurs exactly once if its parentId is absent (as
\* a root entry) or is the id of a stored category whose parentId is absent
\* (in that category's children list); every other category is left out; no
\* category occurs twice.
C4_OneLevelExactlyOnce ==
    ret.op = "getCategoriesHierarchy" =>
        \A c \in categories :
            IF ~Truthy(c.parentId)
            THEN Occurrences(ret.val, c.id) = 1 /\ IsRootEntry(ret.val, c.id)
            ELSE IF \E r \in categories : r.id = c.parentId /\ ~Truthy(r.parentId)
            THEN Occurrences(ret.val, c.id) = 1 /\ IsChildEntryOf(ret.val, c.id, c.parentId)
            ELSE Occurrences(ret.val, c.id) = 0

\* the hierarchy of a root and its child has just been read
C4_Witness ==
    /\ ret.op = "getCategoriesHierarchy"
    /\ \E r, c \in categories :
          /\ ~Truthy(r.parentId)
          /\ c.parentId = r.id
          /\ IsChildEntryOf(ret.val, c.id, r.id)

\* C9: reorderCategories(ids) with no failing update, for a list of distinct
\* ids of stored categories, returns true, leaves the category ids[i] with
\* displayOrder = i (counted from 0), and changes no category outside ids.
C9_ReorderAssignsIndex ==
    [][( /\ ret'.op = "reorderCategories"
         /\ ret'.args[2] = 0
         /\ \A i \in DOMAIN ret'.args[1] : CategoryStored(categories, ret'.args[1][i])
         /\ \A i, j \in DOMAIN ret'.args[1] : ret'.args[1][i] = ret'.args[1][j] => i = j )
       => LET ids == ret'.args[1]
          IN  /\ ret'.val = TRUE
              /\ \A i \in DOMAIN ids :
                    \E c \in categories' : c.id = ids[i] /\ c.displayOrder = i - 1
              /\ \A c \in categories : c.id \notin Range(ids) => c \in categories'
              /\ {c.id : c \in categories'} = {c.id : c \in categories}]_vars

\* a reorder of two stored categories, the later created one first, is done
C9_Witness ==
    /\ ret.op = "reorderCategories"
    /\ ret.args[2] = 0
    /\ ret.val = TRUE
    /\ Len(ret.args[1]) = 2
    /\ \E a, b \in categories :
          /\ a.createdAt < b.createdAt
          /\ ret.args[1] = <<b.id, a.id>>
          /\ b.displayOrder = 0
          /\ a.displayOrder = 1

\* the updates of reorderCategories(ids) that wrote the row of that id when
\* the k-th update (counted from 1) failed: those before the k-th
WrittenBefore(ids, k, id) == {j \in 1..(k - 1) : ids[j] = id}

Max(S) == CHOOSE m \in S : \A n \in S : n <= m

\* C15: when the k-th update of reorderCategories(ids) fails, the rows of
\* the ids before it keep the displayOrder the call wrote (the index of the
\* id, counted from 0), every other row, those of the ids after it
\* included, is as it was, and the call reports the failure: it returns
\* false.
C15_FailedReorderKeepsWrittenPrefix ==
    [][(ret'.op = "reorderCategories" /\ ret'.args[2] > 0)
       => LET ids == ret'.args[1]
              k == ret'.args[2]
          IN  /\ ret'.kind = "return"
              /\ ret'.val = FALSE
              /\ {c.id : c \in categories'} = {c.id : c \in categories}
              /\ \A c \in categories :
                    IF WrittenBefore(ids, k, c.id) = {}
                    THEN c \in categories'
                    ELSE [c EXCEPT !.displayOrder = Max(WrittenBefore(ids, k, c.id)) - 1]
                            \in categories']_vars

\* reorderCategories of two stored categories has just failed at its second
\* update: the first id has the displayOrder 0 the call wrote, the second
\* id a displayOrder the call would not have given it
C15_Witness ==
    /\ ret.op = "reorderCategories"
    /\ ret.args[2] = 2
    /\ ret.val = FALSE
    /\ \E a, b \in categories :
          /\ a.id # b.id
          /\ ret.args[1] = <<b.id, a.id>>
          /\ b.displayOrder = 0
          /\ a.displayOrder = 2

-----------------------------------------------------------------------------
(* deleteCategory overlapping the calls of other requests.                 *)

Callers == 1..MaxCallers

\* one deleteCategory call (caller 1) in flight at a time, among the calls
\* of other requests
NextGuard ==
    \/ \E category \in [slug : Slugs] \cup [slug : Slugs, parentId : CategoryIds] :
           CreateCategory(category)
    \/ \E id \in CategoryIds, updateData \in [slug : Slugs] \cup [parentId : CategoryIds] :
           UpdateCategory(id, updateData)
    \/ \E product \in [category : Slugs] :
           Cardinality(products) < MaxCatalogProducts /\ CreateProduct(product)
    \/ \E id \in CatalogProductIds, patch \in [category : Slugs] : UpdateProduct(id, patch)
    \/ \E id \in CategoryIds : DeleteCategoryChildren(1, id)
    \/ DeleteCategorySlug(1)
    \/ DeleteCategoryProducts(1)
    \/ DeleteCategoryDelete(1)

SpecGuard == Init /\ [][NextGuard]_vars

\* C22: whenever deleteCategory(id) has removed category C, no stored
\* category has parentId = id and no stored product has category = C.slug,
\* also when calls of other requests run between its guard reads and its
\* delete.
C22_RemovedCategoryLeavesNoReference ==
    [][\A C \in categories :
          (\A r \in categories' : r.id # C.id)
            => /\ \A r \in categories' : r.parentId # C.id
               /\ \A p \in products' : p.category # C.slug]_vars

-----------------------------------------------------------------------------
(* reorderCategories calls that overlap, each with all category ids in an  *)
(* order of its own.                                                       *)

\* the orders of all category ids: the lists in which every id occurs once
CategoryOrders ==
    {ids \in [1..MaxCategories -> CategoryIds] :
        \A id \in CategoryIds : \E k \in 1..MaxCategories : ids[k] = id}

\* the two requests that reorder
ReorderCallers == {1, 2}

NextReorderOverlap ==
    \/ CreateCategory([slug |-> SlugOf(catSeq + 1)])
    \/ \E caller \in ReorderCallers, categoryIds \in CategoryOrders :
           ReorderCategoriesStart(caller, categoryIds)
    \/ \E caller \in ReorderCallers : ReorderCategoriesUpdate(caller)

SpecReorderOverlap == Init /\ [][NextReorderOverlap]_vars

\* C27: each update of a reorderCategories call in flight writes the
\* displayOrder of its one row, whatever other calls wrote in between, and
\* the call returns true after its last update; so when two calls over the
\* same ids with different orders overlap, the displayOrder values stored
\* after both have returned true can be the order of neither (two
\* categories share one value).
C27_OverlappingReordersInterleave ==
    [][\A c \in calls :
          (c.op = "reorderCategories" /\ \A d \in calls' : d.caller = c.caller => d # c)
             => /\ \A r \in categories :
                      \E q \in categories' :
                          /\ q.id = r.id
                          /\ r.id = c.categoryIds[c.i + 1] => q = [r EXCEPT !.displayOrder = c.i]
                          /\ r.id # c.categoryIds[c.i + 1] => q = r
                /\ Cardinality(categories') = Cardinality(categories)
                /\ \A d \in calls : d.caller # c.caller => d \in calls'
                /\ IF c.i + 1 = Len(c.categoryIds)
                   THEN /\ \A d \in calls' : d.caller # c.caller
                        /\ ret' = Returned("reorderCategories", <<c.categoryIds, 0>>, TRUE)
                   ELSE /\ [c EXCEPT !.i = c.i + 1] \in calls'
                        /\ ret' = ret]_vars

\* the overlapping calls have returned true and two categories carry the
\* same displayOrder, one no category has from its creation: in the order
\* of either call every category has a displayOrder of its own
C27_Witness ==
    /\ calls = {}
    /\ ret.op = "reorderCategories"
    /\ ret.val = TRUE
    /\ ret.args[1] \in CategoryOrders
    /\ \E a, b \in categories :
          /\ a.id # b.id
          /\ a.displayOrder = b.displayOrder
          /\ a.displayOrder > 0

-----------------------------------------------------------------------------
(* Categories created and updated by requests whose input is validated     *)
(* with insertCategorySchema and updateCategorySchema before the           *)
(* persistence call.  A slug is the sequence of its characters.            *)

LowercaseLetters ==
    {"a", "b", "c", "d", "e", "f", "g", "h", "i", "j", "k", "l", "m",
     "n", "o", "p", "q", "r", "s", "t", "u", "v", "w", "x", "y", "z"}

DecimalDigits == {"0", "1", "2", "3", "4", "5", "6", "7", "8", "9"}

\* /^[a-z0-9-]+$/.test(slug): one character of the class, then any number
\* more, up to the end
RECURSIVE slugRegexTest_AnyCase(_)
slugRegexTest_AnyCase(slug) ==
    /\ slug # <<>>
    /\ Head(slug) \in LowercaseLetters \cup DecimalDigits \cup {"-", "A", "Z"}
    /\ Tail(slug) = <<>> \/ slugRegexTest_AnyCase(Tail(slug))
RECURSIVE slugRegexTest(_)
slugRegexTest(slug) ==
    /\ slug # <<>>
    /\ Head(slug) \in LowercaseLetters \cup DecimalDigits \cup {"-"}
    /\ Tail(slug) = <<>> \/ slugRegexTest(Tail(slug))

\* insertCategorySchema: slug: z.string().min(1).regex(/^[a-z0-9-]+$/)
insertCategorySchema(category) ==
    /\ "slug" \in DOMAIN category
    /\ Len(category.slug) >= 1
    /\ slugRegexTest(category.slug)

\* updateCategorySchema: insertCategorySchema.partial(), a slug is checked
\* when the patch has one
updateCategorySchema(updateData) ==
    "slug" \in DOMAIN updateData
        => Len(updateData.slug) >= 1 /\ slugRegexTest(updateData.slug)

\* a request to create a category: validation, then createCategory
CreateCategoryRequest(category) ==
    \/ /\ insertCategorySchema(category)
       /\ CreateCategory(category)
    \/ /\ ~insertCategorySchema(category)
       /\ ret' = Raised("createCategory", <<category>>, "validation: slug")
       /\ UNCHANGED <<users, products, categories, catSeq, bills, estimates,
                      homeSections, sectionSeq, homeSectionItems, itemSeq, calls, now>>

\* a request to update a category: validation, then updateCategory
UpdateCategoryRequest(id, updateData) ==
    \/ /\ updateCategorySchema(updateData)
       /\ UpdateCategory(id, updateData)
    \/ /\ ~updateCategorySchema(updateData)
       /\ ret' = Raised("updateCategory", <<id, updateData>>, "validation: slug")
       /\ UNCHANGED <<users, products, categories, catSeq, bills, estimates,
                      homeSections, sectionSeq, homeSectionItems, itemSeq, calls, now>>

\* the slugs callers send: empty, of one character and of two, with
\* lowercase letters, digits, hyphens, capitals and spaces
SlugTexts ==
    {<<>>, <<"a">>, <<"7">>, <<"-">>, <<"A">>, <<" ">>,
     <<"a", "-">>, <<"a", "A">>, <<"7", " ">>}

NextSlugs ==
    \/ \E category \in [slug : SlugTexts] : CreateCategoryRequest(category)
    \/ \E id \in CategoryIds, updateData \in [slug : SlugTexts] \cup [displayOrder : {1}] :
           UpdateCategoryRequest(id, updateData)

SpecSlugs == Init /\ [][NextSlugs]_vars

\* a slug of [a-z0-9-]+: not empty, only lowercase letters, digits, hyphens
WellFormedSlug(slug) ==
    /\ Len(slug) > 0
    /\ \A i \in 1..Len(slug) : slug[i] \in LowercaseLetters \cup DecimalDigits \cup {"-"}

\* the slug the call of ret would store for the row of id: malformed, or
\* the slug of another stored category
WouldViolate(C, id, slug) ==
    \/ ~WellFormedSlug(slug)
    \/ \E c \in C : c.id # id /\ c.slug = slug

-----------------------------------------------------------------------------
(* The estimate operations while time passes.                              *)

EstimateIds == {EstimateId(n) : n \in 1..MaxEstimates}

\* the quotation number a caller's input carries: one that collides with a
\* generated number
CallerQuotationNos == {"PJ-QTN-2026-11-001"}

\* InsertEstimate (quotation_no is a required column of the input)
EstimateInputs == [quotationNo : CallerQuotationNos]

\* Partial<InsertEstimate>
EstimatePatches == [quotationNo : CallerQuotationNos] \cup [status : {"SENT"}]

NextEstimates ==
    \/ \E insertEstimate \in EstimateInputs : CreateEstimate(insertEstimate)
    \/ \E id \in EstimateIds, updateData \in EstimatePatches : UpdateEstimate(id, updateData)
    \/ Tick

SpecEstimates == Init /\ [][NextEstimates]_vars

\* PJ-QTN-YYYY-MM- of a month, and a sequence number in three digits or more
QuotationPrefix(t) ==
    "PJ-QTN-" \o ToString(t.year) \o "-" \o (IF t.month < 10 THEN "0" ELSE "")
        \o ToString(t.month) \o "-"

QuotationSuffix(n) ==
    (IF n < 10 THEN "00" ELSE IF n < 100 THEN "0" ELSE "") \o ToString(n)

QuotationSuffixes == {QuotationSuffix(n) : n \in 1..(MaxEstimates + 1)}

\* C5: two createEstimate calls, one right after the other in the same
\* calendar month, return two different quotation numbers with the same
\* prefix PJ-QTN-YYYY-MM- and different sequence suffixes.
C5_SuccessiveNumbersDiffer ==
    [][( /\ ret.op = "createEstimate"
         /\ ret'.op = "createEstimate"
         /\ ret' # ret
         /\ now' = now
         /\ ret.val.createdAt = now )
       => ( /\ ret'.val.quotationNo # ret.val.quotationNo
            /\ \E s1, s2 \in QuotationSuffixes :
                  /\ s1 # s2
                  /\ ret.val.quotationNo = QuotationPrefix(now) \o s1
                  /\ ret'.val.quotationNo = QuotationPrefix(now) \o s2 )]_vars

\* createEstimate has just returned the second estimate of the month
C5_Witness ==
    /\ ret.op = "createEstimate"
    /\ ret.val.createdAt = now
    /\ \E e \in estimates :
          /\ e.id # ret.val.id
          /\ e.createdAt = now
          /\ e.quotationNo = QuotationPrefix(now) \o "001"
    /\ ret.val.quotationNo = QuotationPrefix(now) \o "002"

\* C6: createEstimate stores quotationNo = PJ-QTN-<year>-<2-digit month>-<seq>
\* with seq = (the number of stored estimates created in the current month
\* when it is called) + 1 in at least three digits, whatever quotationNo the
\* caller's input carries.
C6_GeneratedNumberStored ==
    [][(ret'.op = "createEstimate" /\ ret' # ret)
       => LET n == Cardinality({e \in estimates : e.createdAt = now}) + 1
              generated == QuotationPrefix(now) \o QuotationSuffix(n)
          IN  /\ ret'.kind = "return"
              /\ ret'.val.quotationNo = generated
              /\ \E e \in estimates' \ estimates :
                    e = ret'.val /\ e.quotationNo = generated]_vars

\* createEstimate has just stored a number other than the one its input
\* carried, in a month written with a leading zero
C6_Witness ==
    /\ ret.op = "createEstimate"
    /\ ret.val \in estimates
    /\ ret.args[1].quotationNo # ret.val.quotationNo
    /\ ret.val.quotationNo = "PJ-QTN-2027-01-002"

\* the calendar months of the years the clock passes through
CalendarMonths == [year : {2026, 2027}, month : 1..12]

\* the sequence numbers a quotation number ends with, read as
\* PJ-QTN-YYYY-MM-<seq> of some month
SequenceNumbers(q) ==
    {n \in 1..(MaxEstimates + 1) :
        \E t \in CalendarMonths : q = QuotationPrefix(t) \o QuotationSuffix(n)}

\* a was inserted before b: ids are handed out in the order of the inserts
CreatedBefore(a, b) ==
    \E m, n \in 1..(MaxEstimates + 1) : a.id = EstimateId(m) /\ b.id = EstimateId(n) /\ m < n

\* C13: after any sequence of createEstimate and updateEstimate calls, one
\* at a time, no two stored estimates carry the same quotationNo, and of two
\* estimates created in the same calendar month the one created later has
\* the strictly larger sequence suffix.
C13_QuotationNosUniqueAndIncreasing ==
    /\ \A a, b \in estimates : a.quotationNo = b.quotationNo => a.id = b.id
    /\ \A a, b \in estimates :
           (a.createdAt = b.createdAt /\ CreatedBefore(a, b))
              => \E m \in SequenceNumbers(a.quotationNo), n \in SequenceNumbers(b.quotationNo) :
                     m < n

-----------------------------------------------------------------------------
(* createEstimate calls that overlap, while time passes.                   *)

NextOverlap ==
    \/ \E caller \in Callers, insertEstimate \in EstimateInputs :
           CreateEstimateCount(caller, insertEstimate)
    \/ \E caller \in Callers : CreateEstimateInsert(caller)
    \/ Tick

SpecOverlap == Init /\ [][NextOverlap]_vars

\* C14: the insert of a createEstimate call stores the quotation number the
\* call built from its own count, whatever was inserted since the count, and
\* nothing rejects it: when another call that counted the same rows has
\* inserted first, both stored estimates carry the same quotationNo.
C14_OverlappingCallsStoreSameNumber ==
    [][\A c \in calls :
          (c.op = "createEstimate" /\ c \notin calls')
             => /\ ret'.op = "createEstimate"
                /\ ret'.kind = "return"
                /\ ret'.val.quotationNo = c.estimateData.quotationNo
                /\ ret'.val \notin estimates
                /\ estimates' = estimates \cup {ret'.val}]_vars

\* two calls of the same month have both returned, and the two estimates
\* they stored carry the same quotationNo
C14_Witness ==
    /\ calls = {}
    /\ ret.op = "createEstimate"
    /\ \E a, b \in estimates :
          /\ a.id # b.id
          /\ a.createdAt = now
          /\ b.createdAt = now
          /\ a.quotationNo = b.quotationNo
          /\ b = ret.val

-----------------------------------------------------------------------------
(* The bill operations.                                                    *)

BillNumbers == {"BILL-1", "BILL-2"}

\* the amounts of the inputs, in half cents: subtotal 1.005 or 2.00, making
\* charges 0.00, gst 0.01; discount 0.005 or 5.00; vat 0.05; a caller's
\* total 0.01
BillAmounts ==
    [subtotal : {201, 400}, makingCharges : {0}, gst : {2}]

BillOptions ==
    {<<>>} \cup [discount : {1, 1000}] \cup [vat : {10}] \cup [total : {2}]
      \cup [discount : {1}, vat : {10}, total : {2}]

\* InsertBill, with and without the bill number the table requires
BillInputs ==
    {Spread(a, o) : a \in BillAmounts, o \in BillOptions}
      \cup {Spread(Spread(a, o), [billNumber |-> n]) :
               a \in BillAmounts, o \in BillOptions, n \in BillNumbers}

NextBills ==
    \/ \E bill \in BillInputs : CreateBill(bill)

SpecBills == Init /\ [][NextBills]_vars

\* the sum of an input, in half cents, discount taken as 0 when absent
InputSum(bill) ==
    bill.subtotal + bill.makingCharges + bill.gst
      - (IF "discount" \in DOMAIN bill THEN bill.discount ELSE 0)

\* the cents nearest to a number of half cents, a tie going away from zero
NearestCents(h) ==
    CHOOSE c \in -600..600 : IF h >= 0 THEN 2 * c \in {h, h + 1} ELSE 2 * c \in {h, h - 1}

\* C7: the total stored for a bill createBill creates is subtotal +
\* makingCharges + gst - discount of its input (discount 0 when absent) at
\* the precision of the column, whatever total or vat the input carries;
\* for amounts in whole cents it is that sum of the stored columns.
C7_BillTotalIsSum ==
    (ret.op = "createBill" /\ ret.kind = "return") =>
        \E b \in bills :
            /\ ret.val = <<b>>
            /\ b.total = NearestCents(InputSum(ret.args[1]))
            /\ (\A c \in {"subtotal", "makingCharges", "gst", "discount"} :
                   c \in DOMAIN ret.args[1] => ret.args[1][c] % 2 = 0)
               => b.total = b.subtotal + b.makingCharges + b.gst - b.discount

\* createBill has just stored a bill whose input carried a total and a vat
\* of its own and no discount
C7_Witness ==
    /\ ret.op = "createBill"
    /\ ret.kind = "return"
    /\ "total" \in DOMAIN ret.args[1]
    /\ "vat" \in DOMAIN ret.args[1]
    /\ \E b \in bills : ret.val = <<b>> /\ b.total # NearestCents(ret.args[1].total) /\ b.vat > 0

-----------------------------------------------------------------------------
(* Bills that are created and then updated, all amounts in whole cents.    *)

BillIds == {BillId(n) : n \in 1..MaxBills}

\* InsertBill with a bill number: subtotal 1.00 or 2.00, making charges 0.00
\* or 0.50, gst 0.01, paid amount 0.00, with and without a discount of 0.50
PaidBillInputs ==
    [billNumber : BillNumbers, subtotal : {200, 400}, makingCharges : {0, 100},
     gst : {2}, paidAmount : {0}]
      \cup [billNumber : BillNumbers, subtotal : {200, 400}, makingCharges : {0, 100},
            gst : {2}, paidAmount : {0}, discount : {100}]

\* Partial<InsertBill>: one field only, or the four fields of the sum
BillPatches ==
    [paidAmount : {200}] \cup [discount : {100}] \cup [subtotal : {600}]
      \cup [subtotal : {600}, makingCharges : {100}, gst : {2}, discount : {0}]

NextBillUpdates ==
    \/ \E bill \in PaidBillInputs : CreateBill(bill)
    \/ \E id \in BillIds, billData \in BillPatches : UpdateBill(id, billData)

SpecBillUpdates == Init /\ [][NextBillUpdates]_vars

\* C21: every stored bill has total = subtotal + makingCharges + gst -
\* discount, also after updateBill with a patch of only some fields.
C21_StoredTotalIsSum ==
    \A b \in bills : b.total = b.subtotal + b.makingCharges + b.gst - b.discount

-----------------------------------------------------------------------------
(* Bills created in different months and read by date range.               *)

\* the dates a caller asks for: the months the clock passes through
RangeDates ==
    {[year |-> 2026, month |-> 11], [year |-> 2026, month |-> 12],
     [year |-> 2027, month |-> 1]}

\* the ranges a caller asks for: startDate <= endDate
DateRanges ==
    {r \in [startDate : RangeDates, endDate : RangeDates] : lte(r.startDate, r.endDate)}

NextBillDates ==
    \/ \E bill \in PaidBillInputs : CreateBill(bill)
    \/ \E r \in DateRanges : GetBillsByDateRange(r.startDate, r.endDate)
    \/ Tick

SpecBillDates == Init /\ [][NextBillDates]_vars

\* C26: getBillsByDateRange(startDate, endDate) with startDate <= endDate
\* returns exactly the stored bills whose createdAt lies between startDate
\* and endDate inclusive.
C26_DateRangeReturnsBillsBetween ==
    ret.op = "getBillsByDateRange" =>
        /\ Range(ret.val) = {b \in bills : /\ gte(b.createdAt, ret.args[1])
                                           /\ lte(b.createdAt, ret.args[2])}
        /\ Len(ret.val) = Cardinality(Range(ret.val))

-----------------------------------------------------------------------------
(* The user operations.                                                    *)

UserIds == {UserId(n) : n \in 1..MaxUsers}

Emails == {"a@x.com", "nouser@x.com"}

Passwords == {"secret", "anything"}

Salts == {"salt1", "salt2"}

\* InsertUser
UserInputs == [email : Emails, password : Passwords]

NextUsers ==
    \/ \E insertUser \in UserInputs, salt \in Salts : CreateUser(insertUser, salt)
    \/ \E userId \in UserIds, newPassword \in Passwords, salt \in Salts :
           UpdateUserPassword(userId, newPassword, salt)
    \/ \E email \in Emails, password \in Passwords : AuthenticateUser(email, password)

SpecUsers == Init /\ [][NextUsers]_vars

\* the plaintext a stored hash was made of
PlaintextOf(hash) == hash.digest[2]

\* C8: authenticateUser(email, password) returns the stored user of exactly
\* that email if the password is the one its stored hash was made of, and
\* null otherwise; it raises no error and changes no stored state.
C8_AuthenticateUserOrNull ==
    [][(ret'.op = "authenticateUser")
       => LET email == ret'.args[1]
              password == ret'.args[2]
              matching == {u \in users : u.email = email /\ PlaintextOf(u.password) = password}
          IN  /\ ret'.kind = "return"
              /\ matching # {} => ret'.val \in matching
              /\ matching = {} => ret'.val = JSNULL
              /\ UNCHANGED <<users, products, categories, bills, estimates,
                             homeSections, homeSectionItems>>]_vars

\* authenticateUser has just returned null for a stored user's email and a
\* wrong password
C8_Witness ==
    /\ ret.op = "authenticateUser"
    /\ ret.val = JSNULL
    /\ \E u \in users : u.email = ret.args[1] /\ PlaintextOf(u.password) # ret.args[2]

\* C18: createUser with the email of a stored user ends with an error and
\* leaves the users as they were; after every step no two stored users have
\* the same email.
C18_DuplicateEmailRejected ==
    [][ /\ (ret'.op = "createUser" /\ \E u \in users : u.email = ret'.args[1].email)
            => (ret'.kind = "error" /\ users' = users)
        /\ \A a, b \in users' : a.email = b.email => a.id = b.id ]_vars

\* createUser has just been refused for the email of the one stored user,
\* with a password other than that user's
C18_Witness ==
    /\ ret.op = "createUser"
    /\ ret.kind = "error"
    /\ Cardinality(users) = 1
    /\ \E u \in users :
          u.email = ret.args[1].email /\ PlaintextOf(u.password) # ret.args[1].password

-----------------------------------------------------------------------------
(* Sign-up, password change and login: accounts are created with the       *)
(* password "secret" (hashed with the salt "salt1"), passwords are changed *)
(* (hashed with the salt "salt2"), and logins are tried with every         *)
(* password.                                                               *)

NextRoundTrip ==
    \/ \E email \in Emails : CreateUser([email |-> email, password |-> "secret"], "salt1")
    \/ \E userId \in UserIds, newPassword \in Passwords :
           UpdateUserPassword(userId, newPassword, "salt2")
    \/ \E email \in Emails, password \in Passwords : AuthenticateUser(email, password)

SpecRoundTrip == Init /\ [][NextRoundTrip]_vars

\* C29: authenticateUser(e, p) right after createUser with email e and
\* password p returns the created user; right after updateUserPassword(id,
\* p2) of a stored user with email e, authenticateUser(e, p2) returns that
\* user and authenticateUser(e, p) with any other password p, the previous
\* one included, returns null.
C29_PasswordRoundTrip ==
    [][/\ (/\ ret.op = "createUser"
           /\ ret.kind = "return"
           /\ ret'.op = "authenticateUser"
           /\ ret'.args = <<ret.args[1].email, ret.args[1].password>>)
            => ret'.val = ret.val
       /\ (/\ ret.op = "updateUserPassword"
           /\ ret.val # UNDEFINED
           /\ ret'.op = "authenticateUser"
           /\ ret'.args[1] = ret.val.email)
            => /\ ret'.args[2] = ret.args[2] => ret'.val = ret.val
               /\ ret'.args[2] # ret.args[2] => ret'.val = JSNULL]_vars

\* the password a user signed up with has just been refused, the password
\* having been changed to another one since
C29_Witness ==
    /\ ret.op = "authenticateUser"
    /\ ret.args[2] = "secret"
    /\ ret.val = JSNULL
    /\ \E u \in users :
          /\ u.email = ret.args[1]
          /\ u.password = bcryptHash("anything", 10, "salt2")

-----------------------------------------------------------------------------
(* The user operations that write: accounts are created, their passwords  *)
(* replaced, their OTP and Stripe columns written.                         *)

NextPasswords ==
    \/ \E insertUser \in UserInputs, salt \in Salts : CreateUser(insertUser, salt)
    \/ \E userId \in UserIds, newPassword \in Passwords, salt \in Salts :
           UpdateUserPassword(userId, newPassword, salt)
    \/ \E userId \in UserIds : UpdateStripeCustomerId(userId, "cus_1")
    \/ \E userId \in UserIds :
           UpdateUserStripeInfo(userId, [customerId |-> "cus_1", subscriptionId |-> "sub_1"])
    \/ \E userId \in UserIds : UpdateUserOtp(userId, "123456", [year |-> 2026, month |-> 12])
    \/ \E userId \in UserIds : UpdateUserOtpVerified(userId, TRUE)
    \/ \E userId \in UserIds : ClearUserOtp(userId)

SpecPasswords == Init /\ [][NextPasswords]_vars

\* the value is a bcrypt hash of cost 10 of the password: whatever the salt,
\* the digest is the one of that salt and that password
HashOfPassword(value, password) ==
    \E salt \in Salts : value = [cost |-> 10, salt |-> salt, digest |-> <<salt, password>>]

\* C19: the password column of a user is written by createUser and by
\* updateUserPassword of that user only, and what they write is the hash of
\* the password they were given, never the password itself; every other
\* step leaves the column as it was.  So each stored password is the hash
\* of the last password supplied for its user.
C19_PasswordsStoredHashed ==
    [][ /\ (ret'.op = "createUser" /\ ret'.kind = "return")
            => /\ ret'.val \in users' \ users
               /\ HashOfPassword(ret'.val.password, ret'.args[1].password)
        /\ \A u \in users :
               \E v \in users' :
                   /\ v.id = u.id
                   /\ IF ret'.op = "updateUserPassword" /\ ret'.args[1] = u.id
                      THEN HashOfPassword(v.password, ret'.args[2])
                      ELSE v.password = u.password
        /\ \A v \in users' : \E password \in Passwords : HashOfPassword(v.password, password)
      ]_vars

\* updateUserPassword has just replaced the password of one of two users,
\* a user with an OTP code, by another one than the user was created with
C19_Witness ==
    /\ ret.op = "updateUserPassword"
    /\ Cardinality(users) = 2
    /\ \E u \in users :
          /\ u.id = ret.args[1]
          /\ u.otpCode = "123456"
          /\ PlaintextOf(u.password) = ret.args[2]
          /\ \E w \in users : w.id # u.id /\ PlaintextOf(w.password) # ret.args[2]

-----------------------------------------------------------------------------
(* The password-reset flow while time passes: codes are set, verified and  *)
(* cleared, before and after their expiry.                                 *)

\* InsertUser: the OTP columns are optional columns of the input
OtpUserInputs ==
    [email : Emails, password : {"secret"}]
      \cup [email : Emails, password : {"secret"}, otpVerified : {TRUE}]

OtpCodes == {"123456", "654321"}

\* the expiry a caller sets: a time in the month after the initial one
OtpExpiries == {[year |-> 2026, month |-> 12]}

NextOtp ==
    \/ \E insertUser \in OtpUserInputs : CreateUser(insertUser, "salt1")
    \/ \E userId \in UserIds, otpCode \in OtpCodes, otpExpiry \in OtpExpiries :
           UpdateUserOtp(userId, otpCode, otpExpiry)
    \/ \E userId \in UserIds, verified \in BOOLEAN : UpdateUserOtpVerified(userId, verified)
    \/ \E userId \in UserIds : ClearUserOtp(userId)
    \/ \E userId \in UserIds : UpdateUserPassword(userId, "anything", "salt1")
    \/ \E email \in Emails : AuthenticateUser(email, "secret")
    \/ Tick

SpecOtp == Init /\ [][NextOtp]_vars

\* the expiry of the user's code lies in a month before the current one
OtpExpired(u, t) == u.otpExpiry # JSNULL /\ ~gte(u.otpExpiry, t)

\* C20: for a stored user, updateUserOtp(id, code, expiry) sets otpCode and
\* otpExpiry to its arguments and otpVerified to false, updateUserOtpVerified(id, v)
\* sets otpVerified to v and nothing else, clearUserOtp(id) sets otpCode and
\* otpExpiry to null and otpVerified to false; otpVerified of a stored user
\* becomes true by updateUserOtpVerified(id, true) only; a code and its
\* expiry change by updateUserOtp and clearUserOtp of that user only, also
\* once the expiry has passed, and no call ends with an error then.
C20_OtpTransitions ==
    [][\A u \in users :
          \E v \in users' :
              /\ v.id = u.id
              /\ (now' = now /\ ret'.op = "updateUserOtp" /\ ret'.args[1] = u.id)
                    => v = [u EXCEPT !.otpCode = ret'.args[2], !.otpExpiry = ret'.args[3],
                                     !.otpVerified = FALSE]
              /\ (now' = now /\ ret'.op = "updateUserOtpVerified" /\ ret'.args[1] = u.id)
                    => v = [u EXCEPT !.otpVerified = ret'.args[2]]
              /\ (now' = now /\ ret'.op = "clearUserOtp" /\ ret'.args[1] = u.id)
                    => v = [u EXCEPT !.otpCode = NULL, !.otpExpiry = JSNULL,
                                     !.otpVerified = FALSE]
              /\ (u.otpVerified # TRUE /\ v.otpVerified = TRUE)
                    => (now' = now /\ ret'.op = "updateUserOtpVerified"
                                   /\ ret'.args = <<u.id, TRUE>>)
              /\ (v.otpCode # u.otpCode \/ v.otpExpiry # u.otpExpiry)
                    => (now' = now /\ ret'.op \in {"updateUserOtp", "clearUserOtp"}
                                   /\ ret'.args[1] = u.id)
              /\ (OtpExpired(u, now) /\ now' = now /\ ret'.op # "createUser")
                    => ret'.kind = "return"]_vars

\* a user whose code expired in an earlier month has just been marked
\* verified, the code still stored
C20_Witness ==
    /\ ret.op = "updateUserOtpVerified"
    /\ ret.args[2] = TRUE
    /\ \E u \in users :
          /\ u.id = ret.args[1]
          /\ ret.val = u
          /\ u.otpVerified = TRUE
          /\ u.otpCode \in OtpCodes
          /\ OtpExpired(u, now)

\* the user u, whose password has been changed (accounts are created with
\* "secret" and changed to "anything"), is verified before the step and v,
\* the same user after it, is not
Unverified(u, v) ==
    /\ PlaintextOf(u.password) = "anything"
    /\ u.otpVerified = TRUE
    /\ v.otpVerified # TRUE

\* updateUserPassword leaves every column but the password of its user as
\* it is, and every other user; the stored code and expiry of a user change
\* by clearUserOtp and updateUserOtp of that user only
PasswordChangeKeepsOtp(u, v) ==
    /\ (now' = now /\ ret'.op = "updateUserPassword")
          => /\ DOMAIN v = DOMAIN u
             /\ \A f \in DOMAIN u : f # "password" => v[f] = u[f]
             /\ u.id # ret'.args[1] => v = u
             /\ u.id = ret'.args[1] => PlaintextOf(v.password) = ret'.args[2]
    /\ (v.otpCode # u.otpCode \/ v.otpExpiry # u.otpExpiry)
          => (ret'.op \in {"clearUserOtp", "updateUserOtp"} /\ ret'.args[1] = u.id)

\* C30: updateUserPassword(id, newPassword) changes only the password:
\* otpCode, otpExpiry and otpVerified keep their values, so a verified user
\* stays verified, the same code stored, until clearUserOtp or
\* updateUserOtp is called.
C30_PasswordChangeKeepsOtpUntilReset ==
    [][\A u \in users :
          \E v \in users' :
              /\ v.id = u.id
              /\ PasswordChangeKeepsOtp(u, v)
              /\ Unverified(u, v)
                    => (ret'.op \in {"clearUserOtp", "updateUserOtp"} /\ ret'.args[1] = u.id)]_vars

\* C30, amended: as above, a verified user staying verified until
\* clearUserOtp, updateUserOtp or updateUserOtpVerified(id, false) is
\* called.
C30_PasswordChangeKeepsOtp ==
    [][\A u \in users :
          \E v \in users' :
              /\ v.id = u.id
              /\ PasswordChangeKeepsOtp(u, v)
              /\ Unverified(u, v)
                    => \/ ret'.op \in {"clearUserOtp", "updateUserOtp"} /\ ret'.args[1] = u.id
                       \/ ret'.op = "updateUserOtpVerified" /\ ret'.args = <<u.id, FALSE>>]_vars

\* the password of a verified user has just been changed: the user is
\* still verified and the code is still stored
C30_Witness ==
    /\ ret.op = "updateUserPassword"
    /\ \E u \in users :
          /\ u.id = ret.args[1]
          /\ ret.val = u
          /\ u.password = bcryptHash("anything", 10, "salt1")
          /\ u.otpVerified = TRUE
          /\ u.otpCode \in OtpCodes

-----------------------------------------------------------------------------
(* The home-section items and the products they show.                      *)

SectionIds == {HomeSectionId(n) : n \in 1..MaxSections}

ItemIds == {HomeSectionItemId(n) : n \in 1..MaxItems}

\* InsertHomeSectionItem: position is optional; productId is any string, of
\* a stored product or of none
ItemInputs ==
    [sectionId : SectionIds, productId : ProductIds]
      \cup [sectionId : SectionIds, productId : ProductIds, position : {1}]

NextHome ==
    \/ CreateProduct([category |-> "rings"])
    \/ \E id \in ProductIds : DeleteProduct(id)
    \/ \E itemData \in ItemInputs : AddHomeSectionItem(itemData)
    \/ \E itemId \in ItemIds : DeleteHomeSectionItem(itemId)
    \/ \E sectionId \in SectionIds : GetHomeSectionItems(sectionId)

SpecHome == Init /\ [][NextHome]_vars

\* a product that is not deleted: a stored row that is active
LiveProduct(P, id) == \E p \in P : p.id = id /\ p.isActive = TRUE

\* C12: getHomeSectionItems(sectionId) returns no item whose product is
\* soft-deleted or has no row, and returns every item of the section whose
\* product is live, in the order of their positions.
C12_DeletedProductItemsExcluded ==
    ret.op = "getHomeSectionItems" =>
        /\ \A k \in DOMAIN ret.val : LiveProduct(products, ret.val[k].productId)
        /\ \A i \in homeSectionItems :
               (i.sectionId = ret.args[1] /\ LiveProduct(products, i.productId))
                  => \E k \in DOMAIN ret.val : ret.val[k].id = i.id
        /\ \A k, l \in DOMAIN ret.val : k < l => ret.val[k].position <= ret.val[l].position

-----------------------------------------------------------------------------
(* Store-level errors: the statements of createUser, createCategory,       *)
(* updateCategory and createBill that a constraint of the table rejects,   *)
(* and a failing update of reorderCategories.                              *)

FaultUserInputs == [email : Emails, password : {"secret"}]

FaultBillInputs ==
    [subtotal : {400}, makingCharges : {0}, gst : {2}]
      \cup [subtotal : {400}, makingCharges : {0}, gst : {2}, billNumber : BillNumbers]

NextFaults ==
    \/ \E insertUser \in FaultUserInputs : CreateUser(insertUser, "salt1")
    \/ \E category \in [slug : Slugs] : CreateCategory(category)
    \/ \E id \in CategoryIds, updateData \in [slug : Slugs] : UpdateCategory(id, updateData)
    \/ \E bill \in FaultBillInputs : CreateBill(bill)
    \/ \E categoryIds \in [1..2 -> CategoryIds], failAt \in 0..2 :
           ReorderCategories(categoryIds, failAt)

SpecFaults == Init /\ [][NextFaults]_vars

\* the step is a call in which the store rejects or fails a statement
StoreCallFails ==
    \/ /\ ret'.op = "createUser"
       /\ \E u \in users : u.email = ret'.args[1].email
    \/ /\ ret'.op = "createCategory"
       /\ \E c \in categories : c.slug = ret'.args[1].slug
    \/ /\ ret'.op = "updateCategory"
       /\ \E c, d \in categories :
             c.id = ret'.args[1] /\ d.id # c.id /\ d.slug = ret'.args[2].slug
    \/ /\ ret'.op = "createBill"
       /\ \/ "billNumber" \notin DOMAIN ret'.args[1]
          \/ \E b \in bills : b.billNumber = ret'.args[1].billNumber
    \/ /\ ret'.op = "reorderCategories"
       /\ ret'.args[2] > 0

\* C16 as stated: whenever the store rejects or fails a statement of a
\* repository operation, the operation ends with an error for its caller,
\* never with a normal return value.
C16_StoreErrorsPropagate ==
    [][StoreCallFails => ret'.kind = "error"]_vars

\* C16 amended: a store-level error inside an operation other than
\* reorderCategories reaches the caller as an error and the tables are as
\* before the call; reorderCategories turns the error of a failing update
\* into the return value false.
C16_StoreErrorsPropagateExceptReorder ==
    [][StoreCallFails =>
          IF ret'.op = "reorderCategories"
          THEN ret'.kind = "return" /\ ret'.val = FALSE
          ELSE /\ ret'.kind = "error"
               /\ UNCHANGED <<users, categories, bills>>]_vars

\* updateCategory has just failed on the slug of another category
C16_Witness ==
    /\ ret.op = "updateCategory"
    /\ ret.kind = "error"
    /\ \E c, d \in categories : c.id = ret.args[1] /\ d.id # c.id /\ d.slug = ret.args[2].slug

-----------------------------------------------------------------------------
(* The update operations of all tables, called with the ids of stored and  *)
(* of missing rows.  The tables hold MaxRows rows in all.                  *)

StoredRows ==
    Cardinality(users) + Cardinality(products) + Cardinality(categories)
      + Cardinality(bills) + Cardinality(estimates) + Cardinality(homeSections)
      + Cardinality(homeSectionItems)

RowNumbers == 1..MaxRows

NextUpdates ==
    \/ StoredRows < MaxRows /\ CreateProduct([category |-> "rings"])
    \/ StoredRows < MaxRows /\ CreateCategory([slug |-> SlugOf(catSeq + 1)])
    \/ StoredRows < MaxRows
          /\ CreateBill([subtotal |-> 400, makingCharges |-> 0, gst |-> 2,
                         billNumber |-> "BILL-1"])
    \/ StoredRows < MaxRows /\ CreateEstimate([quotationNo |-> "PJ-QTN-2026-11-001"])
    \/ StoredRows < MaxRows
          /\ \E email \in Emails : CreateUser([email |-> email, password |-> "secret"], "salt1")
    \/ StoredRows < MaxRows /\ CreateHomeSection([title |-> "New arrivals"])
    \/ StoredRows < MaxRows /\ AddHomeSectionItem([sectionId |-> "s1", productId |-> "p1"])
    \/ \E n \in RowNumbers : UpdateProduct(ProductId(n), [isActive |-> FALSE])
    \/ \E n \in RowNumbers : UpdateBill(BillId(n), [discount |-> 1000])
    \/ \E n \in RowNumbers : UpdateEstimate(EstimateId(n), [status |-> "SENT"])
    \/ \E n \in RowNumbers : UpdateCategory(CategoryId(n), [displayOrder |-> 1])
    \/ \E n \in RowNumbers : UpdateHomeSection(HomeSectionId(n), [isActive |-> FALSE])
    \/ \E n \in RowNumbers : UpdateHomeSectionItem(HomeSectionItemId(n), [position |-> 1])
    \/ \E n \in RowNumbers : UpdateStripeCustomerId(UserId(n), "cus_1")
    \/ \E n \in RowNumbers :
           UpdateUserStripeInfo(UserId(n), [customerId |-> "cus_1", subscriptionId |-> "sub_1"])
    \/ \E n \in RowNumbers : UpdateUserOtp(UserId(n), "123456", [year |-> 2026, month |-> 11])
    \/ \E n \in RowNumbers : UpdateUserOtpVerified(UserId(n), TRUE)
    \/ \E n \in RowNumbers : UpdateUserPassword(UserId(n), "secret", "salt1")
    \/ \E n \in RowNumbers : ClearUserOtp(UserId(n))

SpecUpdates == Init /\ [][NextUpdates]_vars

UserUpdates ==
    {"updateStripeCustomerId", "updateUserStripeInfo", "updateUserOtp",
     "updateUserOtpVerified", "updateUserPassword", "clearUserOtp"}

UpdateOperations ==
    UserUpdates \cup {"updateProduct", "updateBill", "updateEstimate", "updateCategory",
                      "updateHomeSection", "updateHomeSectionItem"}

\* the ids stored in the table an update operation writes
StoredIds(op) ==
    {r.id : r \in CASE op \in UserUpdates -> users
                    [] op = "updateProduct" -> products
                    [] op = "updateBill" -> bills
                    [] op = "updateEstimate" -> estimates
                    [] op = "updateCategory" -> categories
                    [] op = "updateHomeSection" -> homeSections
                    [] op = "updateHomeSectionItem" -> homeSectionItems}

\* C17: an update operation called with an id no row of its table has
\* changes no table; updateEstimate then raises 'Estimate not found', every
\* other update operation returns undefined.
C17_OnlyUpdateEstimateRaisesOnMissingId ==
    [][( /\ ret'.op \in UpdateOperations
         /\ ret'.args[1] \notin StoredIds(ret'.op) )
       => ( /\ UNCHANGED <<users, products, categories, bills, estimates,
                           homeSections, homeSectionItems>>
            /\ IF ret'.op = "updateEstimate"
               THEN ret'.kind = "error" /\ ret'.val = "Estimate not found"
               ELSE ret'.kind = "return" /\ ret'.val = UNDEFINED )]_vars

\* updateEstimate has just raised for an id no estimate has while another
\* estimate is stored
C17_Witness ==
    /\ ret.op = "updateEstimate"
    /\ ret.kind = "error"
    /\ ret.val = "Estimate not found"
    /\ estimates # {}
    /\ ret.args[1] \notin {e.id : e \in estimates}

-----------------------------------------------------------------------------
(* The reads of one row, called with keys of stored rows, keys no row has  *)
(* and keys that differ from a stored one in case or by one character.     *)

\* InsertUser: phone is optional
ReadUserInputs ==
    [email : {"a@x.com"}, password : {"secret"}]
      \cup [email : {"a@x.com"}, password : {"secret"}, phone : {"9876543210"}]

EmailKeys == {"a@x.com", "A@X.COM", "a@x.co"}

PhoneKeys == {"9876543210", "987654321"}

BillNumberKeys == {"BILL-1", "bill-1", "BILL-10"}

SlugKeys == {"rings", "Rings", "ring"}

NextReads ==
    \/ StoredRows < MaxRows /\ CreateProduct([category |-> "rings"])
    \/ StoredRows < MaxRows /\ CreateCategory([slug |-> "rings"])
    \/ StoredRows < MaxRows
          /\ CreateBill([subtotal |-> 400, makingCharges |-> 0, gst |-> 2,
                         billNumber |-> "BILL-1"])
    \/ StoredRows < MaxRows /\ CreateEstimate([quotationNo |-> "PJ-QTN-2026-11-001"])
    \/ StoredRows < MaxRows /\ \E insertUser \in ReadUserInputs : CreateUser(insertUser, "salt1")
    \/ StoredRows < MaxRows /\ CreateHomeSection([title |-> "New arrivals"])
    \/ StoredRows < MaxRows /\ AddHomeSectionItem([sectionId |-> "s1", productId |-> "p1"])
    \/ \E n \in RowNumbers : DeleteProduct(ProductId(n))
    \/ \E n \in RowNumbers : GetUser(UserId(n))
    \/ \E email \in EmailKeys : GetUserByEmail(email)
    \/ \E phone \in PhoneKeys : GetUserByPhone(phone)
    \/ \E n \in RowNumbers : GetProduct(ProductId(n))
    \/ \E n \in RowNumbers : GetBill(BillId(n))
    \/ \E n \in RowNumbers : GetBillById(BillId(n))
    \/ \E billNumber \in BillNumberKeys : GetBillByNumber(billNumber)
    \/ \E n \in RowNumbers : GetEstimate(EstimateId(n))
    \/ \E n \in RowNumbers : GetCategory(CategoryId(n))
    \/ \E slug \in SlugKeys : GetCategoryBySlug(slug)
    \/ \E n \in RowNumbers : GetHomeSection(HomeSectionId(n))

SpecReads == Init /\ [][NextReads]_vars

\* the single-entity reads, each with the column its key is compared with
KeyColumnOf ==
    [getUser |-> "id", getUserByEmail |-> "email", getUserByPhone |-> "phone",
     getProduct |-> "id", getBill |-> "id", getBillById |-> "id",
     getBillByNumber |-> "billNumber", getEstimate |-> "id", getCategory |-> "id",
     getCategoryBySlug |-> "slug", getHomeSection |-> "id"]

\* the rows of the table a single-entity read selects from
TableOf(op) ==
    IF op \in {"getUser", "getUserByEmail", "getUserByPhone"} THEN users
    ELSE IF op = "getProduct" THEN products
    ELSE IF op \in {"getBill", "getBillById", "getBillByNumber"} THEN bills
    ELSE IF op = "getEstimate" THEN estimates
    ELSE IF op \in {"getCategory", "getCategoryBySlug"} THEN categories
    ELSE homeSections

\* C25: a single-entity read called with a key that matches no stored row
\* returns undefined, raises no error and changes no table; a row it
\* returns carries exactly the key it was asked for.
C25_ReadOfMissingKeyIsAbsent ==
    [][ret'.op \in DOMAIN KeyColumnOf =>
          /\ (\A r \in TableOf(ret'.op) : r[KeyColumnOf[ret'.op]] # ret'.args[1])
                => (ret'.kind = "return" /\ ret'.val = UNDEFINED)
          /\ ret'.kind = "return"
          /\ ret'.val # UNDEFINED => ret'.val[KeyColumnOf[ret'.op]] = ret'.args[1]
          /\ UNCHANGED <<users, products, categories, bills, estimates,
                         homeSections, homeSectionItems>>]_vars

\* getEstimate has just returned undefined for an id no estimate has, an
\* estimate with another id being stored
C25_Witness ==
    /\ ret.op = "getEstimate"
    /\ ret.val = UNDEFINED
    /\ estimates # {}
    /\ \A e \in estimates : e.id # ret.args[1]

-----------------------------------------------------------------------------
(* Home sections deleted with their items, alone and while items are      *)
(* added by other requests.                                                *)

\* one overlapped deleteHomeSection call (caller 1) in flight at a time
NextSections ==
    \/ CreateHomeSection([title |-> "New arrivals"])
    \/ Cardinality(products) < MaxCatalogProducts /\ CreateProduct([category |-> "rings"])
    \/ \E itemData \in [sectionId : SectionIds, productId : {"p1"}] :
           AddHomeSectionItem(itemData)
    \/ \E id \in SectionIds : DeleteHomeSection(id)
    \/ \E id \in SectionIds : DeleteHomeSectionDeleteItems(1, id)
    \/ DeleteHomeSectionDeleteSection(1)

SpecSections == Init /\ [][NextSections]_vars

\* the step is a whole deleteHomeSection(id) call, nothing running in between
WholeDelete(id) ==
    /\ calls' = calls
    /\ ret'.op = "deleteHomeSection"
    /\ ret'.args = <<id>>

\* C28: deleteHomeSection(id) removes the items with sectionId = id, then
\* the section.  Run without interleaving, it leaves no item with sectionId
\* = id and no section id, returns true iff a section id was stored, and
\* leaves the items of other sections and the products as they are.  Run
\* with other calls between its two deletes, its second delete removes the
\* section and no item, so an item added in between stays.
C28_DeleteHomeSectionCascade ==
    [][/\ \A id \in SectionIds :
             WholeDelete(id)
               => /\ \A i \in homeSectionItems' : i.sectionId # id
                  /\ \A s \in homeSections' : s.id # id
                  /\ ret'.val = (\E s \in homeSections : s.id = id)
                  /\ \A i \in homeSectionItems : i.sectionId # id => i \in homeSectionItems'
                  /\ homeSectionItems' \subseteq homeSectionItems
                  /\ \A s \in homeSections : s.id # id => s \in homeSections'
                  /\ homeSections' \subseteq homeSections
                  /\ products' = products
       /\ \A c \in calls' \ calls :
             c.op = "deleteHomeSection"
               => /\ \A i \in homeSectionItems' : i.sectionId # c.id
                  /\ \A i \in homeSectionItems : i.sectionId # c.id => i \in homeSectionItems'
                  /\ homeSectionItems' \subseteq homeSectionItems
                  /\ UNCHANGED <<homeSections, products, ret>>
       /\ \A c \in calls \ calls' :
             c.op = "deleteHomeSection"
               => /\ \A s \in homeSections' : s.id # c.id
                  /\ \A s \in homeSections : s.id # c.id => s \in homeSections'
                  /\ homeSections' \subseteq homeSections
                  /\ ret' = Returned("deleteHomeSection", <<c.id>>,
                                     \E s \in homeSections : s.id = c.id)
                  /\ UNCHANGED <<homeSectionItems, products>>]_vars

\* deleteHomeSection has returned true, the section is gone, and an item
\* added between its two deletes still carries the section's id
C28_Witness ==
    /\ calls = {}
    /\ ret = Returned("deleteHomeSection", ret.args, TRUE)
    /\ \A s \in homeSections : s.id # ret.args[1]
    /\ \E i \in homeSectionItems : i.sectionId = ret.args[1]

=============================================================================
